---- MODULE Spec2Model ----
(***************************************************************************)
(* Time-bucketed incremental aggregation of pageview events                *)
(* (squirrel-stats): the hourly and daily aggregation commands, the gap    *)
(* scans that backfill missing buckets, and the store they run against.    *)
(*                                                                         *)
(* Time is counted in clock ticks.  An hour is TicksPerHour ticks and a    *)
(* day HoursPerDay hours.  An hour bucket is named by its first tick, a    *)
(* day bucket by its day number.                                           *)
(***************************************************************************)
EXTENDS Integers, Sequences, FiniteSets, TLC

\* ---------------------------------------------------------------- bounds
TicksPerHour == 2      \* clock ticks in one hour bucket
HoursPerDay == 2       \* hour buckets in one day bucket
MaxTime == 2           \* the clock stops advancing at this tick
MaxLag == 0            \* ticks between stamping created_at and the INSERT
MaxEvents == 2         \* pageviews ever inserted
NumSites == 1          \* sites
NumSessions == 1       \* sessions
MaxScanDays == 2       \* largest --days option of the daily gap scan
ScanHours == 3         \* hours the hourly gap scan looks back (7 days)
MaxGroupDay == 4       \* days 0..MaxGroupDay are grouped in GroupSpec

TicksPerDay == TicksPerHour * HoursPerDay

Sites == 1..NumSites
Sessions == 1..NumSessions
Times == 0..MaxTime
Gran == {"hour", "day"}

None == -1000          \* Python None for an absent option or a null key
NoSession == 0         \* PageView.session IS NULL
NoId == 0              \* last_processed_pageview_id IS NULL
Malformed == -2000     \* a --start/--end string that fromisoformat rejects

VARIABLES
    now,        \* timezone.now(), in ticks
    events,     \* PageView table: sequence of rows, the index is the id
    stats,      \* stats[g]: committed aggregate rows, keyed <<site, bucket>>
    proc,       \* per process: the command it runs and its local variables
    queue,      \* RQ queue "aggregations": requests not yet taken by a worker
    queued,     \* TRUE when redis_conn and Queue are configured
    grp,        \* input and output of _group_consecutive_days (GroupSpec)
    sess,       \* Session Resolver: the keys generated, the Session rows and the
                \* pageviews attached to them (KeySpec, SpanSpec, SessionSpec)
    fresh       \* history: buckets <<g, site, b>> a run has completed on, with
                \* no pageview inserted into them since

vars == <<now, events, stats, proc, queue, queued, grp, sess, fresh>>

\* ------------------------------------------------------------- time
\* aggregate_hourly_stats._truncate_to_hour: dt.replace(minute=0, ...)
TruncateToHour(t) == (t \div TicksPerHour) * TicksPerHour

\* datetime.date(): the calendar day of a timestamp
DateOf(t) == t \div TicksPerDay

\* Bucket of granularity g holding tick t.
Align(g, t) == IF g = "hour" THEN TruncateToHour(t) ELSE DateOf(t)

\* current_hour + timedelta(hours=1) / current_date + timedelta(days=1)
NextBucket(g, b) == IF g = "hour" THEN b + TicksPerHour ELSE b + 1

\* current_hour / day_start: first tick of the bucket
BucketStart(g, b) == IF g = "hour" THEN b ELSE b * TicksPerDay

\* next_hour / day_end: first tick after the bucket
BucketEnd(g, b) == BucketStart(g, NextBucket(g, b))

\* ------------------------------------------------------------- store
Ids == 1..Len(events)

\* PageView.objects.filter(site=site, created_at__gte=lo, created_at__lt=hi)
InBucket(evs, s, lo, hi) ==
    {i \in 1..Len(evs) : evs[i].site = s /\ evs[i].created_at >= lo /\ evs[i].created_at < hi}

HasRow(st, g, s, b) == <<s, b>> \in DOMAIN st[g]

\* defaults={"pageview_count": 0, "unique_session_count": 0}
ZeroRow == [pageview_count |-> 0, unique_session_count |-> 0, last_processed_pageview_id |-> NoId]

\* .filter(..., session__isnull=False).values_list("session").distinct()
AllSessions(evs, s, lo, hi) ==
    {evs[i].session : i \in {j \in InBucket(evs, s, lo, hi) : evs[j].session # NoSession}}

\* ------------------------------------------------------------- sessions
\* Nothing of the Session Resolver has happened.
NoSess == [calls |-> <<>>, rows |-> <<>>, views |-> <<>>, requests |-> <<>>]

\* Bounds of the timestamps given to generate_session_id: the hours (date and
\* hour of the day together) and the seconds within a minute.
MaxDateHour == 1
KeySeconds == {0, 59}

\* timestamp.minute is in 0..59; the window is 30 minutes.
MinutesPerHour == 60
WindowMinutes == 30

\* The minutes of the timestamps: the quarters of the hour and the minutes
\* around the ends of the two windows.
KeyMinutes ==
    {m \in 0..(MinutesPerHour - 1) :
        \/ m % (WindowMinutes \div 2) = 0
        \/ m % WindowMinutes \in {1, WindowMinutes - 1}}

KeyTimes == [datehour : 0..MaxDateHour, minute : KeyMinutes, second : KeySeconds]

\* IP addresses and user agents, as strings of characters: two IPv6 addresses
\* and two user agents.
KeyIps == {<<"1", ":", ":", "2">>, <<"1", ":", ":", "2", ":", "3">>}
KeyUas == {<<"x">>, <<"3", ":", "x">>}

\* Variant: the minute is dropped, the window is the hour.
TimeBucketHour(timestamp) == [timestamp EXCEPT !.minute = 0, !.second = 0]

\* rounded_minutes = (minutes // 30) * 30
\* time_bucket = timestamp.replace(minute=rounded_minutes, second=0, microsecond=0)
TimeBucket(timestamp) ==
    [timestamp EXCEPT !.minute = (timestamp.minute \div WindowMinutes) * WindowMinutes,
                      !.second = 0]

\* time_bucket.isoformat(): date and hour, minute and second in fixed places.
TimeBucketIso(tb) ==
    <<ToString(tb.datehour), ":", ToString(tb.minute), ":", ToString(tb.second)>>

\* hashlib.sha256(...).hexdigest(), taken as injective: the digest is named by
\* the string that was hashed.
Sha256Hex(str) == <<"sha256", str>>

\* Session.generate_session_id:
\* session_string = f"{ip_address}:{user_agent}:{time_bucket.isoformat()}"
GenerateSessionId(ip_address, user_agent, timestamp) ==
    Sha256Hex(ip_address \o <<":">> \o user_agent \o <<":">>
                  \o TimeBucketIso(TimeBucket(timestamp)))

\* A call of generate_session_id, kept with its result.
Generate(ip, ua, t) ==
    /\ sess' = [sess EXCEPT !.calls = Append(@, [ip |-> ip, ua |-> ua, timestamp |-> t,
                                                 key |-> GenerateSessionId(ip, ua, t)])]
    /\ UNCHANGED <<now, events, stats, proc, queue, queued, grp, fresh>>

\* ------------------------------------------------------------- session rows
\* Bounds of the Session rows and of the pageviews attached to them:
\* created_at of a pageview is in seconds.
MaxRows == 2
MaxViews == 3
MaxViewTime == 2
Paths == {"/a", "/b"}

\* Session.objects.create(site=..., session_id=..., enter_page=...): the
\* other fields get their defaults (is_bounce=True, duration=0,
\* page_view_count=0, exit_page blank).  synced is history: update_metrics
\* has run since the last pageview was attached.
NewSession(site, session_id, enter_page) ==
    [site |-> site, session_id |-> session_id,
     is_bounce |-> TRUE, duration |-> 0, page_view_count |-> 0,
     enter_page |-> enter_page, exit_page |-> "",
     synced |-> FALSE]

\* session_id is unique=True: the INSERT of a second row with a session_id
\* that a row has fails (IntegrityError).
CanInsertSession(rows, session_id) ==
    \A i \in DOMAIN rows : rows[i].session_id # session_id

\* A Session row is created.
CreateSession(site, session_id, enter_page) ==
    /\ Len(sess.rows) < MaxRows
    /\ CanInsertSession(sess.rows, session_id)
    /\ sess' = [sess EXCEPT !.rows = Append(@, NewSession(site, session_id, enter_page))]
    /\ UNCHANGED <<now, events, stats, proc, queue, queued, grp, fresh>>

\* pageview.session = session; pageview.save(): a pageview with created_at t
\* and path p belongs to Session row r.
AttachView(r, t, p) ==
    /\ r \in DOMAIN sess.rows
    /\ Len(sess.views) < MaxViews
    /\ sess' = [sess EXCEPT !.views = Append(@, [session |-> r, created_at |-> t, path |-> p]),
                            !.rows[r].synced = FALSE]
    /\ UNCHANGED <<now, events, stats, proc, queue, queued, grp, fresh>>

\* self.page_views: the pageviews of Session row r.
PageViewsOf(views, r) == {i \in DOMAIN views : views[i].session = r}

\* page_views.first() / page_views.last() of .order_by("created_at"): the
\* order among equal created_at is left to the database.
FirstViews(views, ids) == {i \in ids : \A j \in ids : views[i].created_at <= views[j].created_at}
LastViews(views, ids) == {i \in ids : \A j \in ids : views[j].created_at <= views[i].created_at}

\* Session.update_metrics: the row as saved.
Metrics(row, views, ids, first_view, last_view) ==
    LET count == Cardinality(ids)
    IN IF count > 0
       THEN LET m == [row EXCEPT !.page_view_count = count, !.is_bounce = (count = 1)]
            IN IF count > 1
               THEN [m EXCEPT !.duration = views[last_view].created_at
                                               - views[first_view].created_at,
                              !.exit_page = views[last_view].path]
               ELSE m
       ELSE row

\* session.update_metrics()
UpdateMetrics(r) ==
    /\ r \in DOMAIN sess.rows
    /\ LET ids == PageViewsOf(sess.views, r)
       IN \E f \in (IF ids = {} THEN {0} ELSE FirstViews(sess.views, ids)),
             l \in (IF ids = {} THEN {0} ELSE LastViews(sess.views, ids)) :
             sess' = [sess EXCEPT !.rows[r] =
                         [Metrics(sess.rows[r], sess.views, ids, f, l) EXCEPT !.synced = TRUE]]
    /\ UNCHANGED <<now, events, stats, proc, queue, queued, grp, fresh>>

\* ------------------------------------------------------------- processes
SeqProcs == {1}        \* one process: commands run one after another
Procs == {1, 2}        \* two processes: commands overlap

\* A process that runs no command.
IdleProc ==
    [pc |-> "idle", g |-> "hour", site |-> None, todo |-> <<>>,
     start |-> 0, end |-> 0, cur |-> 0,
     created |-> FALSE, row |-> ZeroRow, pageviews |-> {}, last |-> NoId,
     lock |-> "none", wrote |-> FALSE,
     created_count |-> 0, updated_count |-> 0, processed_pageviews |-> 0,
     total_created |-> 0, total_updated |-> 0, total_processed |-> 0,
     errors |-> 0, result |-> "none", store |-> "up",
     scan |-> "none", scan_sites |-> <<>>, scan_site |-> None,
     scan_start |-> 0, scan_cur |-> 0, scan_end |-> 0,
     ranges |-> <<>>, existing |-> {},
     emitted |-> <<>>, scan_n |-> 0, last_scan |-> <<>>, rescan |-> FALSE,
     phase |-> "free", snap |-> <<>>,
     window |-> <<0, 0>>, visited |-> <<>>, tz |-> 0,
     base |-> <<0, 0, 0>>]

\* Variant: a database without locks, where no transaction is ever seen to
\* hold one.
OthersHoldingNothing(p, locks) == {}

\* SQLite (settings_prod.DATABASES) in rollback-journal mode: a transaction
\* takes SHARED at its first read and keeps it to its end, RESERVED at its
\* first write (one holder at a time), and EXCLUSIVE to commit, which needs
\* every other transaction to have ended.
OthersHolding(p, locks) == {q \in Procs \ {p} : proc[q].lock \in locks}

\* Variant: a write never finds the database locked by another writer.
CanReserveAlways(p) == TRUE

\* RESERVED can be taken when no other transaction holds it.
CanReserve(p) == OthersHolding(p, {"reserved"}) = {}

\* EXCLUSIVE can be taken when no other transaction is open.
CanCommit(p) == OthersHolding(p, {"shared", "reserved"}) = {}

\* An autocommit write (INSERT of a pageview, UPDATE of its session).
CanWrite == OthersHolding(0, {"shared", "reserved"}) = {}

Set(p, r) == proc' = [proc EXCEPT ![p] = r]

\* ------------------------------------------------------------- environment
\* The clock advances.
Tick ==
    /\ now < MaxTime
    /\ now' = now + 1
    /\ UNCHANGED <<events, stats, proc, queue, queued, grp, sess, fresh>>

\* Variant: the pageview is created as already processed.
NewPageViewProcessed(s, t) ==
    [site |-> s, created_at |-> t, session |-> NoSession, is_processed |-> TRUE]

\* The row PageView.objects.create(site=site, ...) inserts: session and
\* is_processed are not given and get their defaults.
NewPageView(s, t) ==
    [site |-> s, created_at |-> t, session |-> NoSession, is_processed |-> FALSE]

\* views/pageviews.py: PageView.objects.create(site=site, ...).  created_at
\* (auto_now_add) is stamped before the INSERT, which waits for the database
\* lock and commits up to MaxLag ticks later; session stays NULL.
InsertEvent(s, lag) ==
    /\ Len(events) < MaxEvents
    /\ now - lag >= 0
    /\ CanWrite
    /\ events' = Append(events, NewPageView(s, now - lag))
    /\ fresh' = {k \in fresh : ~(k[2] = s /\ Align(k[1], now - lag) = k[3])}
    /\ UNCHANGED <<now, stats, proc, queue, queued, grp, sess>>

\* Session assignment ("assigned async"): a pageview without a session gets
\* a session.
AttachSession(i, x) ==
    /\ i \in Ids
    /\ events[i].session = NoSession
    /\ CanWrite
    /\ events' = [events EXCEPT ![i].session = x]
    /\ UNCHANGED <<now, stats, proc, queue, queued, grp, sess, fresh>>

\* ------------------------------------------------------------- aggregation
\* --hours default=24 / --days default=30
DefaultHours == 24
DefaultDays == 30
DefaultSpan(g) == IF g = "hour" THEN DefaultHours ELSE DefaultDays

\* timedelta(hours=n) / timedelta(days=n)
Span(g, n) == IF g = "hour" THEN n * TicksPerHour ELSE n

\* datetime.fromisoformat(s) for the hourly command, .date() of it for the daily
Parse(g, t) == IF t = None THEN None ELSE IF g = "hour" THEN t ELSE DateOf(t)

\* timezone.now() / timezone.now().date()
Now(g) == IF g = "hour" THEN now ELSE DateOf(now)

\* handle: the start of the range to process, from --start, --end, --hours
RangeStart(g, startOpt, endOpt, n) ==
    IF startOpt # None THEN Parse(g, startOpt)
    ELSE (IF endOpt # None THEN Parse(g, endOpt) ELSE Now(g)) - Span(g, n)

\* handle: the end of the range to process
RangeEnd(g, startOpt, endOpt, n) ==
    IF endOpt # None THEN Parse(g, endOpt)
    ELSE IF startOpt # None THEN Parse(g, startOpt) + Span(g, n)
    ELSE Now(g)

\* Variant: the ends of the range are used as given.
FirstBucketRaw(g, t) == t

\* _process_site_hours: current_hour, end_hour = _truncate_to_hour(...);
\* _process_site_days: current_date = start_date
FirstBucket(g, t) == IF g = "hour" THEN TruncateToHour(t) ELSE t

\* Local variables of _process_site_* at its entry for one site.  r.tz is
\* the utcoffset of start_time and end_time (0 for UTC and for dates):
\* replace(minute=0, ...) sets the fields of the wall clock of that offset.
EnterSite(r, s) ==
    [r EXCEPT !.pc = "bucket", !.site = s,
              !.cur = FirstBucket(r.g, r.start + r.tz) - r.tz,
              !.created_count = 0, !.updated_count = 0, !.processed_pageviews = 0,
              !.visited = <<>>]

\* handle: after _process_site_* returned: add the site's counts to the
\* totals and go to the next site, or finish.
LeaveSite(r) ==
    LET t == [r EXCEPT !.total_created = @ + r.created_count,
                       !.total_updated = @ + r.updated_count,
                       !.total_processed = @ + r.processed_pageviews]
    IN IF t.todo # <<>>
       THEN [EnterSite(t, Head(t.todo)) EXCEPT !.todo = Tail(t.todo)]
       ELSE [t EXCEPT !.pc = "done", !.result = "completed"]

\* handle returns after self.stdout.write(self.style.ERROR(...)), or an
\* exception leaves it (result "raised"): nothing was processed.  The options
\* are kept as they were given.
Refused(r, g, siteOpt, startOpt, endOpt, result) ==
    [r EXCEPT !.pc = "done", !.result = result, !.g = g,
              !.site = siteOpt, !.start = startOpt, !.end = endOpt, !.todo = <<>>,
              !.total_created = 0, !.total_updated = 0, !.total_processed = 0,
              !.errors = 0]

\* Variant: every site identifier is taken as known.
KnownSiteAny(s) == TRUE

\* A second site, whose pageviews arrive and which commands name in
\* FrameSpec only (NumSites + 1 is the identifier that matches no site).
OtherSite == NumSites + 2

\* sites_query.filter(identifier=site_identifier).exists()
KnownSite(s) == s \in Sites \cup {OtherSite}

\* handle of aggregate_hourly_stats / aggregate_daily_stats: the range and the
\* sites to process.  A --start or --end that does not parse, and a --site
\* that matches no site, end the command with an error message.
StartCommand(r, g, siteOpt, startOpt, endOpt, n) ==
    LET sites == IF siteOpt = None THEN [i \in 1..NumSites |-> i] ELSE <<siteOpt>>
        r0 == [r EXCEPT !.g = g,
                        !.start = RangeStart(g, startOpt, endOpt, n),
                        !.end = FirstBucket(g, RangeEnd(g, startOpt, endOpt, n) + r.tz) - r.tz,
                        !.todo = Tail(sites),
                        !.total_created = 0, !.total_updated = 0, !.total_processed = 0,
                        !.errors = 0, !.result = "none",
                        !.window = <<RangeStart(g, startOpt, endOpt, n),
                                     RangeEnd(g, startOpt, endOpt, n)>>]
    IN IF startOpt = Malformed \/ endOpt = Malformed
       THEN Refused(r, g, siteOpt, startOpt, endOpt, "error")
       ELSE IF siteOpt # None /\ ~KnownSite(siteOpt)
       THEN Refused(r, g, siteOpt, startOpt, endOpt, "error")
       ELSE EnterSite(r0, Head(sites))

\* The command is started while the store cannot be reached: the options are
\* parsed first; then exists() raises inside its try when --site is given
\* (error message, return), and without --site the iteration over
\* sites_query raises outside any try.
StartUnreachable(r, g, siteOpt, startOpt, endOpt) ==
    LET d == [r EXCEPT !.store = "down"]
    IN IF startOpt = Malformed \/ endOpt = Malformed
       THEN Refused(d, g, siteOpt, startOpt, endOpt, "error")
       ELSE IF siteOpt # None
       THEN Refused(d, g, siteOpt, startOpt, endOpt, "error")
       ELSE Refused(d, g, siteOpt, startOpt, endOpt, "raised")

\* python manage.py aggregate_hourly_stats|aggregate_daily_stats
\*   [--site s] [--start t] [--end t] [--hours n | --days n]
Begin(p, g, siteOpt, startOpt, endOpt, n) ==
    /\ proc[p].pc = "idle"
    /\ Set(p, StartCommand([proc[p] EXCEPT !.last_scan = <<>>], g, siteOpt, startOpt, endOpt, n))
    /\ UNCHANGED <<now, events, stats, queue, queued, grp, sess, fresh>>

\* The command given --start and --end strings that carry a UTC offset tz
\* (a and b are the instants they name).  The hourly command keeps the
\* offset in start_time and end_time; the daily command takes .date() of the
\* parsed datetime, the date of its wall clock.
BeginOffset(p, g, s, a, b, tz) ==
    /\ proc[p].pc = "idle"
    /\ Set(p, IF g = "hour"
              THEN StartCommand([proc[p] EXCEPT !.last_scan = <<>>, !.tz = tz],
                                g, s, a, b, DefaultSpan(g))
              ELSE StartCommand([proc[p] EXCEPT !.last_scan = <<>>],
                                g, s, a + tz, b + tz, DefaultSpan(g)))
    /\ UNCHANGED <<now, events, stats, queue, queued, grp, sess, fresh>>

\* The same command started while the store cannot be reached.
BeginUnreachable(p, g, siteOpt, startOpt, endOpt) ==
    /\ proc[p].pc = "idle"
    /\ Set(p, StartUnreachable([proc[p] EXCEPT !.last_scan = <<>>], g, siteOpt, startOpt, endOpt))
    /\ UNCHANGED <<now, events, stats, queue, queued, grp, sess, fresh>>

\* The store becomes unreachable for the command, between two buckets, and
\* stays so for the rest of it.
StoreLost(p) ==
    /\ proc[p].pc = "bucket"
    /\ proc[p].cur <= proc[p].end
    /\ proc[p].store = "up"
    /\ Set(p, [proc[p] EXCEPT !.store = "down"])
    /\ UNCHANGED <<now, events, stats, queue, queued, grp, sess, fresh>>

\* while current_hour <= end_hour fails: return the site's counts.
EndOfRange(p) ==
    /\ proc[p].pc = "bucket"
    /\ proc[p].cur > proc[p].end
    /\ Set(p, LeaveSite(proc[p]))
    /\ UNCHANGED <<now, events, stats, queue, queued, grp, sess, fresh>>

\* The fields of a gap scan (and the history kept of it) among r's.
WithScanOf(r, q) ==
    [r EXCEPT !.scan = q.scan, !.scan_sites = q.scan_sites, !.scan_site = q.scan_site,
              !.scan_start = q.scan_start, !.scan_cur = q.scan_cur, !.scan_end = q.scan_end,
              !.ranges = q.ranges, !.existing = q.existing, !.emitted = q.emitted,
              !.scan_n = q.scan_n, !.last_scan = q.last_scan, !.rescan = q.rescan]

\* handle returned: its locals are gone.  A command called by a gap scan
\* returns into the scan's loop.
Return(p) ==
    LET r == proc[p]
    IN /\ r.pc = "done"
       /\ Set(p, [WithScanOf(IdleProc, r) EXCEPT !.pc = IF r.scan = "none" THEN "idle" ELSE r.scan])
       /\ UNCHANGED <<now, events, stats, queue, queued, grp, sess, fresh>>

\* The bucket's transaction ended (committed or rolled back):
\* current_hour = next_hour.
NextIteration(r) ==
    [r EXCEPT !.pc = "bucket", !.cur = NextBucket(r.g, r.cur),
              !.lock = "none", !.wrote = FALSE]

\* except Exception: the transaction is rolled back, the error is logged
\* and the loop goes on with the next bucket.
Rollback(r) == NextIteration([r EXCEPT !.errors = @ + 1])

\* The counters of _process_site_* as they are when a bucket is entered
\* (history).
CountsOf(r) == <<r.created_count, r.updated_count, r.processed_pageviews>>

\* with transaction.atomic(): X.objects.get_or_create(site=site,
\* hour_bucket=current_hour, defaults=...).  The SELECT opens the read
\* transaction; a missing row is INSERTed, which needs RESERVED.
GetOrCreate(p) ==
    LET r == proc[p]
        k == <<r.site, r.cur>>
    IN /\ r.pc = "bucket"
       /\ r.cur <= r.end
       /\ r.store = "up"
       /\ IF k \in DOMAIN stats[r.g]
          THEN Set(p, [r EXCEPT !.pc = "select", !.lock = "shared",
                                !.created = FALSE, !.row = stats[r.g][k],
                                !.visited = Append(@, r.cur),
                                !.base = CountsOf(r)])
          ELSE /\ CanReserve(p)
               /\ Set(p, [r EXCEPT !.pc = "select", !.lock = "reserved", !.wrote = TRUE,
                                   !.created = TRUE, !.row = ZeroRow,
                                   !.visited = Append(@, r.cur),
                                   !.base = CountsOf(r)])
       /\ UNCHANGED <<now, events, stats, queue, queued, grp, sess, fresh>>

\* get_or_create's INSERT finds the database locked by another writer:
\* OperationalError, caught by the bucket's except.
GetOrCreateBusy(p) ==
    LET r == proc[p]
    IN /\ r.pc = "bucket"
       /\ r.cur <= r.end
       /\ r.store = "up"
       /\ <<r.site, r.cur>> \notin DOMAIN stats[r.g]
       /\ ~CanReserve(p)
       /\ Set(p, Rollback(r))
       /\ UNCHANGED <<now, events, stats, queue, queued, grp, sess, fresh>>

\* Variant: the watermark is ignored, every pageview of the bucket is selected.
PageviewsQueryAll(evs, g, s, b, created, row) ==
    InBucket(evs, s, BucketStart(g, b), BucketEnd(g, b))

\* Variant: the watermark pageview itself is selected again (__gte).
PageviewsQueryInclusive(evs, g, s, b, created, row) ==
    LET all == InBucket(evs, s, BucketStart(g, b), BucketEnd(g, b))
    IN IF ~created /\ row.last_processed_pageview_id # NoId
       THEN {i \in all : evs[i].created_at >= evs[row.last_processed_pageview_id].created_at}
       ELSE all

\* get_or_create cannot reach the store: the error is caught by the bucket's
\* except like any other.
GetOrCreateUnreachable(p) ==
    LET r == proc[p]
    IN /\ r.pc = "bucket"
       /\ r.cur <= r.end
       /\ r.store = "down"
       /\ Set(p, Rollback(r))
       /\ UNCHANGED <<now, events, stats, queue, queued, grp, sess, fresh>>

\* pageviews_query: the bucket's pageviews, restricted to those created after
\* the watermark pageview when the row is not new and has a watermark.
PageviewsQuery(evs, g, s, b, created, row) ==
    LET all == InBucket(evs, s, BucketStart(g, b), BucketEnd(g, b))
    IN IF ~created /\ row.last_processed_pageview_id # NoId
       THEN {i \in all : evs[i].created_at > evs[row.last_processed_pageview_id].created_at}
       ELSE all

\* Variant: any selected pageview is taken as the last one.
LastOfAny(evs, ids) == ids

\* Candidates for pageviews[-1] of .order_by("created_at"): the order among
\* equal created_at is left to the database.
LastOf(evs, ids) == {i \in ids : \A j \in ids : evs[j].created_at <= evs[i].created_at}

\* pageviews = list(pageviews_query.order_by("created_at"))
SelectPageviews(p) ==
    LET r == proc[p]
        sel == PageviewsQuery(events, r.g, r.site, r.cur, r.created, r.row)
    IN /\ r.pc = "select"
       /\ \E l \in (IF sel = {} THEN {NoId} ELSE LastOf(events, sel)) :
            Set(p, [r EXCEPT !.pc = "update", !.pageviews = sel, !.last = l])
       /\ UNCHANGED <<now, events, stats, queue, queued, grp, sess, fresh>>

\* session_ids of the selected pageviews
SessionIds(evs, ids) == {evs[i].session : i \in {j \in ids : evs[j].session # NoSession}}

\* Variant: the sessions of the selected pageviews are added to the count.
UpdatedRowIncremental(evs, g, s, b, created, row, pageviews, last) ==
    [pageview_count |-> (IF created THEN 0 ELSE row.pageview_count) + Cardinality(pageviews),
     unique_session_count |->
         (IF created THEN 0 ELSE row.unique_session_count)
             + Cardinality(SessionIds(evs, pageviews)),
     last_processed_pageview_id |-> last]

\* The row as saved when pageviews were selected.
UpdatedRow(evs, g, s, b, created, row, pageviews, last) ==
    IF created
    THEN [pageview_count |-> Cardinality(pageviews),
          unique_session_count |-> Cardinality(SessionIds(evs, pageviews)),
          last_processed_pageview_id |-> last]
    ELSE [pageview_count |-> row.pageview_count + Cardinality(pageviews),
          unique_session_count |->
              Cardinality(AllSessions(evs, s, BucketStart(g, b), BucketEnd(g, b))),
          last_processed_pageview_id |-> last]

\* Variant: a bucket counts as updated whenever pageviews were selected,
\* also when the run created its row.
CountedBoth(r) ==
    [r EXCEPT !.processed_pageviews = @ + Cardinality(r.pageviews),
              !.created_count = IF r.created THEN @ + 1 ELSE @,
              !.updated_count = IF r.pageviews # {} THEN @ + 1 ELSE @]

\* Variant: a bucket whose row existed counts as updated even when no
\* pageview was selected.
CountedAlways(r) ==
    [r EXCEPT !.processed_pageviews = @ + Cardinality(r.pageviews),
              !.created_count = IF r.created THEN @ + 1 ELSE @,
              !.updated_count = IF ~r.created THEN @ + 1 ELSE @]

\* The counters of _process_site_* after the bucket's body.
Counted(r) ==
    [r EXCEPT !.processed_pageviews = @ + Cardinality(r.pageviews),
              !.created_count = IF r.created THEN @ + 1 ELSE @,
              !.updated_count = IF ~r.created /\ r.pageviews # {} THEN @ + 1 ELSE @]

\* if pageviews: ... hourly_stats.save(); then the created/updated counters.
\* save() is an UPDATE, which needs RESERVED.
Update(p) ==
    LET r == proc[p]
    IN /\ r.pc = "update"
       /\ IF r.pageviews # {}
          THEN /\ r.lock = "reserved" \/ CanReserve(p)
               /\ Set(p, [Counted(r) EXCEPT
                            !.pc = "commit", !.lock = "reserved", !.wrote = TRUE,
                            !.row = UpdatedRow(events, r.g, r.site, r.cur, r.created,
                                               r.row, r.pageviews, r.last)])
          ELSE Set(p, [Counted(r) EXCEPT !.pc = "commit"])
       /\ UNCHANGED <<now, events, stats, queue, queued, grp, sess, fresh>>

\* save() finds the database locked by another writer.
UpdateBusy(p) ==
    LET r == proc[p]
    IN /\ r.pc = "update"
       /\ r.pageviews # {}
       /\ r.lock # "reserved"
       /\ ~CanReserve(p)
       /\ Set(p, Rollback(r))
       /\ UNCHANGED <<now, events, stats, queue, queued, grp, sess, fresh>>

\* Variant: the counters are committed, the watermark in a later commit.
SavedPartial(st, g, s, b, row) ==
    [st EXCEPT ![g] = [k \in DOMAIN st[g] \cup {<<s, b>>} |->
                          IF k # <<s, b>> THEN st[g][k]
                          ELSE [row EXCEPT !.last_processed_pageview_id =
                                   IF k \in DOMAIN st[g]
                                   THEN st[g][k].last_processed_pageview_id
                                   ELSE NoId]]]

\* Variant: the row is written to the bucket's rows of every site.
SavedAllSites(st, g, s, b, row) ==
    [st EXCEPT ![g] = [k \in DOMAIN st[g] \cup {<<s, b>>} |->
                          IF k[2] = b THEN row ELSE st[g][k]]]

\* The committed table after the transaction's row is written.
Saved(st, g, s, b, row) ==
    [st EXCEPT ![g] = [k \in DOMAIN st[g] \cup {<<s, b>>} |->
                          IF k = <<s, b>> THEN row ELSE st[g][k]]]

\* Leaving transaction.atomic(): COMMIT.  A transaction that wrote needs
\* EXCLUSIVE; one that only read just ends.
Commit(p) ==
    LET r == proc[p]
    IN /\ r.pc = "commit"
       /\ r.wrote => CanCommit(p)
       /\ stats' = IF r.wrote THEN Saved(stats, r.g, r.site, r.cur, r.row) ELSE stats
       /\ Set(p, NextIteration(r))
       /\ fresh' = fresh \cup {<<r.g, r.site, r.cur>>}
       /\ UNCHANGED <<now, events, queue, queued, grp, sess>>

\* COMMIT times out waiting for a reader: "database is locked", raised on
\* leaving the with block, after the counters were incremented.
CommitBusy(p) ==
    LET r == proc[p]
    IN /\ r.pc = "commit"
       /\ r.wrote
       /\ ~CanCommit(p)
       /\ Set(p, Rollback(r))
       /\ UNCHANGED <<now, events, stats, queue, queued, grp, sess, fresh>>

\* ------------------------------------------------------------- gap scans
\* sorted(days)
RECURSIVE Insert(_, _)
Insert(x, sq) ==
    IF sq = <<>> THEN <<x>>
    ELSE IF x <= Head(sq) THEN <<x>> \o sq
    ELSE <<Head(sq)>> \o Insert(x, Tail(sq))

RECURSIVE Sorted(_)
Sorted(sq) == IF sq = <<>> THEN <<>> ELSE Insert(Head(sq), Sorted(Tail(sq)))

\* Variant: the loop without the append of the last range after it.
RECURSIVE GroupLoopNoFinal(_, _, _, _, _)
GroupLoopNoFinal(days, i, range_start, range_end, ranges) ==
    IF i > Len(days) THEN ranges
    ELSE IF days[i] = range_end + 1
         THEN GroupLoopNoFinal(days, i + 1, range_start, days[i], ranges)
         ELSE GroupLoopNoFinal(days, i + 1, days[i], days[i],
                               Append(ranges, <<range_start, range_end>>))

\* _group_consecutive_days: the loop for i in range(1, len(days)) and the
\* final append.
RECURSIVE GroupLoop(_, _, _, _, _)
GroupLoop(days, i, range_start, range_end, ranges) ==
    IF i > Len(days) THEN Append(ranges, <<range_start, range_end>>)
    ELSE IF days[i] = range_end + 1
         THEN GroupLoop(days, i + 1, range_start, days[i], ranges)
         ELSE GroupLoop(days, i + 1, days[i], days[i],
                        Append(ranges, <<range_start, range_end>>))

\* Variant: the days are grouped in the order given, without sorted().
GroupConsecutiveDaysUnsorted(days) ==
    IF days = <<>> THEN <<>>
    ELSE GroupLoop(days, 2, days[1], days[1], <<>>)

\* _group_consecutive_days(days): list of (start_date, end_date)
GroupConsecutiveDays(days) ==
    IF days = <<>> THEN <<>>
    ELSE LET sd == Sorted(days)
         IN GroupLoop(sd, 2, sd[1], sd[1], <<>>)

\* Variant: the loop stops before end_date (current_date < end_date).
RECURSIVE MissingDaysExclusive(_, _, _)
MissingDaysExclusive(current_date, end_date, existing_days) ==
    IF current_date >= end_date THEN <<>>
    ELSE (IF current_date \in existing_days THEN <<>> ELSE <<current_date>>)
         \o MissingDaysExclusive(current_date + 1, end_date, existing_days)

\* queue_backfill_missing_days.handle: the days start_date..end_date not in
\* existing_days, ascending (while current_date <= end_date).
RECURSIVE MissingDays(_, _, _)
MissingDays(current_date, end_date, existing_days) ==
    IF current_date > end_date THEN <<>>
    ELSE (IF current_date \in existing_days THEN <<>> ELSE <<current_date>>)
         \o MissingDays(current_date + 1, end_date, existing_days)

\* DailyPageViewStats.objects.filter(site=site, day_bucket__gte=start_date,
\* day_bucket__lte=end_date).values_list("day_bucket")
ExistingDays(st, s, start_date, end_date) ==
    {k[2] : k \in {x \in DOMAIN st["day"] : x[1] = s /\ x[2] >= start_date /\ x[2] <= end_date}}

\* The hours of [start_window, end_window) for which
\* HourlyPageViewStats.objects.filter(site=site, hour_bucket=h).exists().
ExistingHours(st, s, start_window, end_window) ==
    {h \in start_window..(end_window - 1) : TruncateToHour(h) = h /\ HasRow(st, "hour", s, h)}

\* date.isoformat() / datetime.isoformat() as read back by the aggregation
\* command's datetime.fromisoformat: midnight of the day, the datetime itself.
IsoFormat(g, b) == BucketStart(g, b)

AllSites == [i \in 1..NumSites |-> i]

\* queue_backfill_missing_days --days n.  A scan starts when the worker has
\* drained the queue, which keeps the queue bounded.
ScanDaysBegin(p, n) ==
    LET r == proc[p]
        end_date == DateOf(now)
        start_date == end_date - n
    IN /\ r.pc = "idle"
       /\ queue = <<>>
       /\ Set(p, [r EXCEPT !.pc = "scan_days", !.scan = "scan_days",
                           !.scan_sites = AllSites, !.scan_site = None,
                           !.scan_start = start_date, !.scan_cur = start_date,
                           !.scan_end = end_date,
                           !.ranges = <<>>, !.existing = {}, !.emitted = <<>>, !.scan_n = 0,
                           !.rescan = (r.last_scan # <<>> /\
                                       SubSeq(r.last_scan, 1, 3) = <<"scan_days", start_date, end_date>>)])
       /\ UNCHANGED <<now, events, stats, queue, queued, grp, sess, fresh>>

\* queue_backfill_missing_hours: start_window, end_window.  As the daily scan,
\* it starts when the queue is drained.
ScanHoursBegin(p) ==
    LET r == proc[p]
        start_window == TruncateToHour(now - ScanHours * TicksPerHour)
        end_window == TruncateToHour(now)
    IN /\ r.pc = "idle"
       /\ queue = <<>>
       /\ Set(p, [r EXCEPT !.pc = "scan_hours", !.scan = "scan_hours",
                           !.scan_sites = AllSites, !.scan_site = None,
                           !.scan_start = start_window, !.scan_cur = start_window,
                           !.scan_end = end_window,
                           !.ranges = <<>>, !.existing = {}, !.emitted = <<>>, !.scan_n = 0,
                           !.rescan = (r.last_scan # <<>> /\
                                       SubSeq(r.last_scan, 1, 3) = <<"scan_hours", start_window, end_window>>)])
       /\ UNCHANGED <<now, events, stats, queue, queued, grp, sess, fresh>>

\* The scan is through with its current site (or has not taken one yet).
SiteScanned(r) ==
    \/ r.scan_site = None
    \/ r.scan = "scan_hours" /\ r.scan_cur >= r.scan_end
    \/ r.scan = "scan_days" /\ r.ranges = <<>>

\* for site in sites: the next site.  The daily scan reads existing_days and
\* builds missing_days and day_ranges; the hourly scan starts at start_window
\* (existing then records, as history, the hours that have a row at that time).
ScanNextSite(p) ==
    LET r == proc[p]
        s == Head(r.scan_sites)
        ex == ExistingDays(stats, s, r.scan_start, r.scan_end)
    IN /\ r.pc \in {"scan_hours", "scan_days"}
       /\ SiteScanned(r)
       /\ r.scan_sites # <<>>
       /\ Set(p, [r EXCEPT !.scan_site = s, !.scan_sites = Tail(r.scan_sites),
                           !.scan_cur = r.scan_start, !.emitted = <<>>,
                           !.existing = IF r.scan = "scan_days" THEN ex
                                        ELSE ExistingHours(stats, s, r.scan_start, r.scan_end),
                           !.ranges = IF r.scan = "scan_days"
                                      THEN GroupConsecutiveDays(
                                               MissingDays(r.scan_start, r.scan_end, ex))
                                      ELSE <<>>])
       /\ UNCHANGED <<now, events, stats, queue, queued, grp, sess, fresh>>

\* _enqueue_or_run(site.identifier, start, end) by the scan whose locals are
\* r: q.enqueue(call_command, ...) when the queue is configured, else
\* call_command(...), which runs the aggregation command before it returns.
EnqueueOrRun(p, r, g, s, lo, hi) ==
    LET e == [r EXCEPT !.emitted = Append(@, <<lo, hi>>), !.scan_n = @ + 1]
    IN IF queued
       THEN /\ queue' = Append(queue, [g |-> g, site |-> s,
                                       start |-> IsoFormat(g, lo), end |-> IsoFormat(g, hi)])
            /\ Set(p, e)
       ELSE /\ queue' = queue
            /\ Set(p, StartCommand(e, g, s, IsoFormat(g, lo), IsoFormat(g, hi), DefaultSpan(g)))

\* while current_hour < end_window: an hour without a row is handed to
\* _enqueue_or_run; current_hour += 1h (after the call returned).
ScanHoursStep(p) ==
    LET r == proc[p]
        n == [r EXCEPT !.scan_cur = @ + TicksPerHour]
    IN /\ r.pc = "scan_hours"
       /\ r.scan_site # None
       /\ r.scan_cur < r.scan_end
       /\ IF HasRow(stats, "hour", r.scan_site, r.scan_cur)
          THEN Set(p, n) /\ queue' = queue
          ELSE EnqueueOrRun(p, n, "hour", r.scan_site, r.scan_cur, r.scan_cur + TicksPerHour)
       /\ UNCHANGED <<now, events, stats, queued, grp, sess, fresh>>

\* for range_start, range_end in day_ranges: _enqueue_or_run(...)
ScanDaysEmit(p) ==
    LET r == proc[p]
        n == [r EXCEPT !.ranges = Tail(@)]
    IN /\ r.pc = "scan_days"
       /\ r.scan_site # None
       /\ r.ranges # <<>>
       /\ EnqueueOrRun(p, n, "day", r.scan_site, Head(r.ranges)[1], Head(r.ranges)[2])
       /\ UNCHANGED <<now, events, stats, queued, grp, sess, fresh>>

\* The scan's handle returns after its last site.
ScanEnd(p) ==
    LET r == proc[p]
    IN /\ r.pc \in {"scan_hours", "scan_days"}
       /\ SiteScanned(r)
       /\ r.scan_sites = <<>>
       /\ Set(p, [r EXCEPT !.pc = "idle", !.scan = "none",
                           !.last_scan = <<r.scan, r.scan_start, r.scan_end, r.scan_n>>])
       /\ UNCHANGED <<now, events, stats, queue, queued, grp, sess, fresh>>

\* rq_worker: the worker takes the oldest request and calls the command,
\* call_command(name, "--site", s, "--start", start, "--end", end).
Dequeue(p) ==
    LET j == Head(queue)
    IN /\ proc[p].pc = "idle"
       /\ queue # <<>>
       /\ queue' = Tail(queue)
       /\ Set(p, StartCommand(proc[p], j.g, j.site, j.start, j.end, DefaultSpan(j.g)))
       /\ UNCHANGED <<now, events, stats, queued, grp, sess, fresh>>

\* queue_current_hour / queue_current_day: the window of the current bucket,
\* (current_hour_start, current_hour_start + 1h) or (today, today + 1 day).
TriggerBegin(p, g) ==
    LET r == proc[p]
        lo == Align(g, now)
        name == IF g = "hour" THEN "current_hour" ELSE "current_day"
    IN /\ r.pc = "idle"
       /\ queue = <<>>
       /\ Set(p, [r EXCEPT !.pc = name, !.scan = name,
                           !.scan_sites = AllSites, !.scan_site = None,
                           !.scan_start = lo, !.scan_cur = lo, !.scan_end = NextBucket(g, lo),
                           !.ranges = <<>>, !.existing = {}, !.emitted = <<>>, !.scan_n = 0,
                           !.rescan = FALSE])
       /\ UNCHANGED <<now, events, stats, queue, queued, grp, sess, fresh>>

\* for site in sites: _enqueue_or_run(site.identifier, start, end)
TriggerStep(p) ==
    LET r == proc[p]
        n == [r EXCEPT !.scan_sites = Tail(@), !.scan_site = Head(r.scan_sites)]
    IN /\ r.pc \in {"current_hour", "current_day"}
       /\ r.scan_sites # <<>>
       /\ EnqueueOrRun(p, n, IF r.pc = "current_hour" THEN "hour" ELSE "day",
                       Head(r.scan_sites), r.scan_start, r.scan_end)
       /\ UNCHANGED <<now, events, stats, queued, grp, sess, fresh>>

\* The trigger's handle returns after its last site.
TriggerEnd(p) ==
    LET r == proc[p]
    IN /\ r.pc \in {"current_hour", "current_day"}
       /\ r.scan_sites = <<>>
       /\ Set(p, [r EXCEPT !.pc = "idle", !.scan = "none"])
       /\ UNCHANGED <<now, events, stats, queue, queued, grp, sess, fresh>>

\* ------------------------------------------------------------- specifications
Init ==
    /\ now = 0
    /\ events = <<>>
    /\ stats = [g \in Gran |-> <<>>]
    /\ proc = [p \in Procs |-> IdleProc]
    /\ queue = <<>>
    /\ queued = FALSE
    /\ grp = [pc |-> "none", days |-> <<>>, ranges |-> <<>>]
    /\ sess = NoSess
    /\ fresh = {}

Opt(S) == S \cup {None}

\* Commands run one after another, pageviews arrive and get sessions.
Next ==
    \/ Tick
    \/ \E s \in Sites, lag \in 0..MaxLag : InsertEvent(s, lag)
    \/ \E i \in 1..MaxEvents, x \in Sessions : AttachSession(i, x)
    \/ \E p \in SeqProcs, g \in Gran, s \in Opt(Sites), a \in Times, b \in Times :
          Begin(p, g, s, a, b, DefaultSpan(g))
    \/ \E p \in SeqProcs : EndOfRange(p)
    \/ \E p \in SeqProcs : GetOrCreate(p)
    \/ \E p \in SeqProcs : SelectPageviews(p)
    \/ \E p \in SeqProcs : Update(p)
    \/ \E p \in SeqProcs : Commit(p)
    \/ \E p \in SeqProcs : Return(p)

Spec == Init /\ [][Next]_vars

\* Gap scans: the scans, the requests they emit and the commands that run
\* them, one after another, at any time of the clock and from any set of
\* rows that runs of the commands leave.
ScanTimes == (0 - ScanHours * TicksPerHour)..MaxTime

ScanInit ==
    /\ now \in Times
    /\ events = <<>>
    /\ stats = [g \in Gran |-> <<>>]
    /\ proc = [p \in Procs |-> IdleProc]
    /\ queue = <<>>
    /\ queued \in BOOLEAN
    /\ grp = [pc |-> "none", days |-> <<>>, ranges |-> <<>>]
    /\ sess = NoSess
    /\ fresh = {}

ScanNext ==
    \/ \E p \in SeqProcs, g \in Gran, s \in Sites, a \in ScanTimes :
          Begin(p, g, s, a, a, DefaultSpan(g))
    \/ \E p \in SeqProcs : EndOfRange(p)
    \/ \E p \in SeqProcs : GetOrCreate(p)
    \/ \E p \in SeqProcs : SelectPageviews(p)
    \/ \E p \in SeqProcs : Update(p)
    \/ \E p \in SeqProcs : Commit(p)
    \/ \E p \in SeqProcs : Return(p)
    \/ \E p \in SeqProcs, n \in 1..MaxScanDays : ScanDaysBegin(p, n)
    \/ \E p \in SeqProcs : ScanHoursBegin(p)
    \/ \E p \in SeqProcs : ScanNextSite(p)
    \/ \E p \in SeqProcs : ScanHoursStep(p)
    \/ \E p \in SeqProcs : ScanDaysEmit(p)
    \/ \E p \in SeqProcs : ScanEnd(p)
    \/ \E p \in SeqProcs : Dequeue(p)

ScanSpec == ScanInit /\ [][ScanNext]_vars

\* Overlapping runs: two processes run the commands on single buckets while
\* pageviews arrive.
ConcNext ==
    \/ Tick
    \/ \E s \in Sites, lag \in 0..MaxLag : InsertEvent(s, lag)
    \/ \E p \in Procs, g \in Gran, s \in Sites, a \in {t \in Times : TruncateToHour(t) = t} :
          Begin(p, g, s, a, a, DefaultSpan(g))
    \/ \E p \in Procs : EndOfRange(p)
    \/ \E p \in Procs : GetOrCreate(p)
    \/ \E p \in Procs : GetOrCreateBusy(p)
    \/ \E p \in Procs : SelectPageviews(p)
    \/ \E p \in Procs : Update(p)
    \/ \E p \in Procs : UpdateBusy(p)
    \/ \E p \in Procs : Commit(p)
    \/ \E p \in Procs : CommitBusy(p)
    \/ \E p \in Procs : Return(p)

ConcSpec == Init /\ [][ConcNext]_vars

\* _group_consecutive_days on its own, called with any list of distinct days.
RECURSIVE DistinctSeqs(_)
DistinctSeqs(S) ==
    {<<>>} \cup UNION {{<<x>> \o t : t \in DistinctSeqs(S \ {x})} : x \in S}

GroupInit ==
    /\ now = 0
    /\ events = <<>>
    /\ stats = [g \in Gran |-> <<>>]
    /\ proc = [p \in Procs |-> IdleProc]
    /\ queue = <<>>
    /\ queued = FALSE
    /\ grp \in {[pc |-> "call", days |-> d, ranges |-> <<>>] : d \in DistinctSeqs(0..MaxGroupDay)}
    /\ sess = NoSess
    /\ fresh = {}

Group ==
    /\ grp.pc = "call"
    /\ grp' = [grp EXCEPT !.pc = "returned", !.ranges = GroupConsecutiveDays(grp.days)]
    /\ UNCHANGED <<now, events, stats, proc, queue, queued, fresh, sess>>

GroupNext == Group

GroupSpec == GroupInit /\ [][GroupNext]_vars

\* The triggers of the current bucket: at any time of the clock, pageviews
\* arrive and the scheduler fires the current-hour and current-day triggers,
\* whose requests are run inline or by the worker.
TriggerInit ==
    /\ now \in Times
    /\ events = <<>>
    /\ stats = [g \in Gran |-> <<>>]
    /\ proc = [p \in Procs |-> IdleProc]
    /\ queue = <<>>
    /\ queued \in BOOLEAN
    /\ grp = [pc |-> "none", days |-> <<>>, ranges |-> <<>>]
    /\ sess = NoSess
    /\ fresh = {}

TriggerNext ==
    \/ \E s \in Sites, lag \in 0..MaxLag : InsertEvent(s, lag)
    \/ \E p \in SeqProcs, g \in Gran : TriggerBegin(p, g)
    \/ \E p \in SeqProcs : TriggerStep(p)
    \/ \E p \in SeqProcs : TriggerEnd(p)
    \/ \E p \in SeqProcs : Dequeue(p)
    \/ \E p \in SeqProcs : EndOfRange(p)
    \/ \E p \in SeqProcs : GetOrCreate(p)
    \/ \E p \in SeqProcs : SelectPageviews(p)
    \/ \E p \in SeqProcs : Update(p)
    \/ \E p \in SeqProcs : Commit(p)
    \/ \E p \in SeqProcs : Return(p)

TriggerSpec == TriggerInit /\ [][TriggerNext]_vars

\* Failing buckets: two processes run the commands over windows of two
\* buckets, so that a bucket of one run fails on the lock another run holds.
ErrNext ==
    \/ \E p \in Procs, g \in Gran, s \in Opt(Sites) :
          Begin(p, g, s, 0, BucketStart(g, NextBucket(g, 0)), DefaultSpan(g))
    \/ \E p \in Procs : EndOfRange(p)
    \/ \E p \in Procs : GetOrCreate(p)
    \/ \E p \in Procs : GetOrCreateBusy(p)
    \/ \E p \in Procs : SelectPageviews(p)
    \/ \E p \in Procs : Update(p)
    \/ \E p \in Procs : Commit(p)
    \/ \E p \in Procs : CommitBusy(p)
    \/ \E p \in Procs : Return(p)

ErrSpec == Init /\ [][ErrNext]_vars

\* Refused and failing commands: the commands are started with options that
\* parse or do not, for a site that exists or does not, with the store
\* reachable, unreachable from the start, or lost between two buckets.
FailNext ==
    \/ \E p \in SeqProcs, g \in Gran, s \in Opt(Sites \cup {NumSites + 1}), a \in {0, Malformed} :
          \E b \in {BucketStart(g, NextBucket(g, 0)), Malformed} :
              Begin(p, g, s, a, b, DefaultSpan(g))
    \/ \E p \in SeqProcs, g \in Gran, s \in Opt(Sites \cup {NumSites + 1}), a \in {0, Malformed} :
          \E b \in {BucketStart(g, NextBucket(g, 0)), Malformed} :
              BeginUnreachable(p, g, s, a, b)
    \/ \E p \in SeqProcs : StoreLost(p)
    \/ \E p \in SeqProcs : EndOfRange(p)
    \/ \E p \in SeqProcs : GetOrCreate(p)
    \/ \E p \in SeqProcs : GetOrCreateUnreachable(p)
    \/ \E p \in SeqProcs : SelectPageviews(p)
    \/ \E p \in SeqProcs : Update(p)
    \/ \E p \in SeqProcs : Commit(p)
    \/ \E p \in SeqProcs : Return(p)

FailSpec == Init /\ [][FailNext]_vars

\* The worked example: one site with three pageviews inside the hour that
\* starts at tick 0, two of them sharing a session and the third in another
\* one, no aggregate row, and the hourly command run over that hour's window
\* (start, start + 1h) and over the next hour's.
ExampleSessions == {1, 2}

ExampleEvents ==
    {<<[NewPageView(1, t[1]) EXCEPT !.session = x[1]],
       [NewPageView(1, t[2]) EXCEPT !.session = x[2]],
       [NewPageView(1, t[3]) EXCEPT !.session = x[3]]>> :
        t \in {u \in [1..3 -> 0..(TicksPerHour - 1)] : u[1] <= u[2] /\ u[2] <= u[3]},
        x \in {y \in [1..3 -> ExampleSessions] : Cardinality({y[1], y[2], y[3]}) = 2}}

ExampleInit ==
    /\ now \in (TicksPerHour - 1)..MaxTime
    /\ events \in ExampleEvents
    /\ stats = [g \in Gran |-> <<>>]
    /\ proc = [p \in Procs |-> IdleProc]
    /\ queue = <<>>
    /\ queued = FALSE
    /\ grp = [pc |-> "none", days |-> <<>>, ranges |-> <<>>]
    /\ sess = NoSess
    /\ fresh = {}

ExampleNext ==
    \/ \E p \in SeqProcs, a \in {0, TicksPerHour} :
          Begin(p, "hour", 1, a, a + TicksPerHour, DefaultHours)
    \/ \E p \in SeqProcs : EndOfRange(p)
    \/ \E p \in SeqProcs : GetOrCreate(p)
    \/ \E p \in SeqProcs : SelectPageviews(p)
    \/ \E p \in SeqProcs : Update(p)
    \/ \E p \in SeqProcs : Commit(p)
    \/ \E p \in SeqProcs : Return(p)

ExampleSpec == ExampleInit /\ [][ExampleNext]_vars

\* ------------------------------------------------------------- cancellation
\* A run that is watched: the rows and the options at its start are kept
\* (history) in snap.
CancelBegin(p, g, s, a, b) ==
    /\ proc[p].pc = "idle"
    /\ proc[p].phase = "free"
    /\ Set(p, [StartCommand([proc[p] EXCEPT !.last_scan = <<>>], g, s, a, b, DefaultSpan(g))
                 EXCEPT !.phase = "first",
                        !.snap = [stats |-> stats, startOpt |-> a, endOpt |-> b]])
    /\ UNCHANGED <<now, events, stats, queue, queued, grp, sess, fresh>>

\* The process running the command is killed, between two buckets or inside a
\* bucket's transaction, which the database then rolls back: the rows of the
\* buckets committed so far stay.
Cancel(p) ==
    /\ proc[p].phase = "first"
    /\ proc[p].pc \in {"bucket", "select", "update", "commit"}
    /\ Set(p, [proc[p] EXCEPT !.pc = "idle", !.lock = "none", !.wrote = FALSE,
                              !.phase = "cancelled"])
    /\ UNCHANGED <<now, events, stats, queue, queued, grp, sess, fresh>>

\* The next scheduled run: the same command with the same options.
Rerun(p) ==
    LET r == proc[p]
    IN /\ r.pc = "idle"
       /\ r.phase = "cancelled"
       /\ Set(p, [StartCommand(r, r.g, r.site, r.snap.startOpt, r.snap.endOpt, DefaultSpan(r.g))
                    EXCEPT !.phase = "rerun"])
       /\ UNCHANGED <<now, events, stats, queue, queued, grp, sess, fresh>>

\* --end of the runs, which start at 0: the hours up to the first hour of
\* the next day.
CancelTimes == {t \in 0..TicksPerDay : TruncateToHour(t) = t}

\* No watched run is under way.
AllFree == \A p \in SeqProcs : proc[p].phase = "free"

\* Runs that are cancelled and run again, one pair after another, with
\* pageviews and sessions arriving between the pairs; no pageview arrives
\* between the start of a cancelled run and the end of the run that follows it.
CancelNext ==
    \/ AllFree /\ Tick
    \/ \E s \in Sites : AllFree /\ InsertEvent(s, 0)
    \/ \E i \in 1..MaxEvents, x \in Sessions : AllFree /\ AttachSession(i, x)
    \/ \E p \in SeqProcs, g \in Gran, s \in Sites, b \in CancelTimes :
          CancelBegin(p, g, s, 0, b)
    \/ \E p \in SeqProcs : Cancel(p)
    \/ \E p \in SeqProcs : Rerun(p)
    \/ \E p \in SeqProcs : EndOfRange(p)
    \/ \E p \in SeqProcs : GetOrCreate(p)
    \/ \E p \in SeqProcs : SelectPageviews(p)
    \/ \E p \in SeqProcs : Update(p)
    \/ \E p \in SeqProcs : Commit(p)
    \/ \E p \in SeqProcs : Return(p)

CancelSpec == Init /\ [][CancelNext]_vars


\* ------------------------------------------------------------- two sites
\* Commands for one site or the other, one after another, over any window,
\* while pageviews of both sites arrive.
FrameSites == Sites \cup {OtherSite}

FrameNext ==
    \/ Tick
    \/ \E s \in FrameSites : InsertEvent(s, 0)
    \/ \E p \in SeqProcs, g \in Gran, s \in FrameSites, a \in Times, b \in Times :
          a <= b /\ Begin(p, g, s, a, b, DefaultSpan(g))
    \/ \E p \in SeqProcs : EndOfRange(p)
    \/ \E p \in SeqProcs : GetOrCreate(p)
    \/ \E p \in SeqProcs : SelectPageviews(p)
    \/ \E p \in SeqProcs : Update(p)
    \/ \E p \in SeqProcs : Commit(p)
    \/ \E p \in SeqProcs : Return(p)

FrameSpec == Init /\ [][FrameNext]_vars


\* ------------------------------------------------------------- session keys
\* Two calls of generate_session_id with any IP addresses, user agents and
\* timestamps.
MaxCalls == 2

KeyNext ==
    \E ip \in KeyIps, ua \in KeyUas, t \in KeyTimes :
        Len(sess.calls) < MaxCalls /\ Generate(ip, ua, t)

KeySpec == Init /\ [][KeyNext]_vars

\* ------------------------------------------------------------- session spans
\* Seconds from the first instant of datehour 0 to a timestamp.
SecondsOf(t) == (t.datehour * MinutesPerHour + t.minute) * 60 + t.second

\* The events of one visitor, in the order of their time: calls of
\* generate_session_id with one IP address, one user agent and timestamps
\* that do not go back.
MaxSpanCalls == 3

SpanNext ==
    \E t \in KeyTimes :
        /\ Len(sess.calls) < MaxSpanCalls
        /\ sess.calls # <<>> => SecondsOf(t) >= SecondsOf(sess.calls[Len(sess.calls)].timestamp)
        /\ Generate(<<"1", ":", ":", "2">>, <<"x">>, t)

SpanSpec == Init /\ [][SpanNext]_vars

\* ------------------------------------------------------------- session metrics
\* Session rows of one site are created, pageviews are attached to them in
\* any order of their created_at, and update_metrics is called at any time.
SessionNext ==
    \/ \E k \in 1..MaxRows, p \in Paths : CreateSession(1, k, p)
    \/ \E r \in 1..MaxRows, t \in 0..MaxViewTime, p \in Paths : AttachView(r, t, p)
    \/ \E r \in 1..MaxRows : UpdateMetrics(r)

SessionSpec == Init /\ [][SessionNext]_vars

\* ------------------------------------------------------------- session resolver
\* No session: the pageview's session is NULL.
NoRow == 0

\* The Session rows with a key, and those of a site among them.
RowsWithKey(rows, key) == {r \in DOMAIN rows : rows[r].session_id = key}
RowsOfSite(rows, key, site) == {r \in RowsWithKey(rows, key) : rows[r].site = site}

\* The pageview of an event and the row it was attached to.
ResolvedView(site, ip, ua, t, p, r) ==
    [session |-> r, created_at |-> SecondsOf(t), path |-> p,
     site |-> site, ip |-> ip, ua |-> ua, timestamp |-> t]

\* update_metrics on row r, with the first and last pageview as the database
\* orders them.
WithMetrics(rows, views, r) ==
    LET ids == PageViewsOf(views, r)
    IN {[rows EXCEPT ![r] = [Metrics(rows[r], views, ids, f, l) EXCEPT !.synced = TRUE]] :
           f \in FirstViews(views, ids), l \in LastViews(views, ids)}

\* resolve(ip, userAgent, occurredAt) for an event of a site: the key is
\* generated; the site's Session row with that key gets the pageview, and
\* is created first when the site has none.  When the INSERT fails on the
\* unique session_id (a row of another site has the key), the pageview goes
\* to the row that has the key, or stays without a session.
ResolveEvent(site, ip, ua, t, p) ==
    LET key == GenerateSessionId(ip, ua, t)
        own == RowsOfSite(sess.rows, key, site)
        rows == IF own = {} /\ CanInsertSession(sess.rows, key)
                THEN Append(sess.rows, NewSession(site, key, p))
                ELSE sess.rows
        targets == IF RowsOfSite(rows, key, site) # {} THEN RowsOfSite(rows, key, site)
                   ELSE RowsWithKey(rows, key) \cup {NoRow}
    IN /\ Len(sess.views) < MaxViews
       /\ Len(rows) <= MaxRows
       /\ \E r \in targets :
             LET views == Append(sess.views, ResolvedView(site, ip, ua, t, p, r))
             IN \E nrows \in (IF r = NoRow THEN {rows} ELSE WithMetrics(rows, views, r)) :
                   sess' = [sess EXCEPT !.rows = nrows, !.views = views]
       /\ UNCHANGED <<now, events, stats, proc, queue, queued, grp, fresh>>

\* Events of two sites from one IP address, within one hour.
ResolveTimes == {t \in KeyTimes : t.datehour = 0 /\ t.second = 0}

ResolveNext ==
    \E site \in FrameSites, ua \in KeyUas, t \in ResolveTimes :
        ResolveEvent(site, <<"1", ":", ":", "2">>, ua, t, "/a")

ResolveSpec == Init /\ [][ResolveNext]_vars

\* ------------------------------------------------------------- tracking
\* Tracking requests answered so far at most.
MaxRequests == 3

\* The request and the status of its JsonResponse, kept as history.
Answered(sid, status) ==
    sess' = [sess EXCEPT !.requests = Append(@, [sid |-> sid, status |-> status])]

\* views/pageviews.track_pageview: without sid the answer is 400; a sid that
\* Site.objects.get does not find is answered 404; otherwise the pageview is
\* created and the answer is 200.
TrackPageview(sid, lag) ==
    /\ Len(sess.requests) < MaxRequests
    /\ IF sid = None
       THEN /\ Answered(sid, 400)
            /\ UNCHANGED <<now, events, stats, proc, queue, queued, grp, fresh>>
       ELSE IF ~KnownSite(sid)
       THEN /\ Answered(sid, 404)
            /\ UNCHANGED <<now, events, stats, proc, queue, queued, grp, fresh>>
       ELSE /\ Len(events) < MaxEvents
            /\ now - lag >= 0
            /\ CanWrite
            /\ events' = Append(events, NewPageView(sid, now - lag))
            /\ fresh' = {k \in fresh : ~(k[2] = sid /\ Align(k[1], now - lag) = k[3])}
            /\ Answered(sid, 200)
            /\ UNCHANGED <<now, stats, proc, queue, queued, grp>>

\* Tracking requests with a sid of a site, a sid of no site or no sid, while
\* the clock advances and the hourly command runs.
TrackNext ==
    \/ Tick
    \/ \E sid \in Opt(Sites \cup {NumSites + 1}), lag \in 0..MaxLag : TrackPageview(sid, lag)
    \/ \E p \in SeqProcs, s \in Sites : Begin(p, "hour", s, 0, 0, DefaultHours)
    \/ \E p \in SeqProcs : EndOfRange(p)
    \/ \E p \in SeqProcs : GetOrCreate(p)
    \/ \E p \in SeqProcs : SelectPageviews(p)
    \/ \E p \in SeqProcs : Update(p)
    \/ \E p \in SeqProcs : Commit(p)
    \/ \E p \in SeqProcs : Return(p)

TrackSpec == Init /\ [][TrackNext]_vars

\* Windows with a UTC offset: the commands are given --start and --end
\* strings that carry an offset of up to MaxOffset ticks either way and name
\* the same instant, one after another, while pageviews arrive.
MaxOffset == 1

Offsets == (0 - MaxOffset)..MaxOffset

OffsetNext ==
    \/ Tick
    \/ \E s \in Sites, lag \in 0..MaxLag : InsertEvent(s, lag)
    \/ \E p \in SeqProcs, g \in Gran, s \in Sites, a \in Times, tz \in Offsets :
          BeginOffset(p, g, s, a, a, tz)
    \/ \E p \in SeqProcs : EndOfRange(p)
    \/ \E p \in SeqProcs : GetOrCreate(p)
    \/ \E p \in SeqProcs : SelectPageviews(p)
    \/ \E p \in SeqProcs : Update(p)
    \/ \E p \in SeqProcs : Commit(p)
    \/ \E p \in SeqProcs : Return(p)

OffsetSpec == Init /\ [][OffsetNext]_vars

\* Many visitors in one bucket: up to ManyEvents pageviews arrive, each gets
\* the session of its own visitor, and the commands run one after another
\* on the first hour and the first day.
ManyEvents == 3

\* PageView.objects.create(site=site, ...), as InsertEvent, up to ManyEvents
\* pageviews.
InsertOfMany(s, lag) ==
    /\ Len(events) < ManyEvents
    /\ now - lag >= 0
    /\ CanWrite
    /\ events' = Append(events, NewPageView(s, now - lag))
    /\ fresh' = {k \in fresh : ~(k[2] = s /\ Align(k[1], now - lag) = k[3])}
    /\ UNCHANGED <<now, stats, proc, queue, queued, grp, sess>>

ManyNext ==
    \/ Tick
    \/ \E s \in Sites, lag \in 0..MaxLag : InsertOfMany(s, lag)
    \/ \E i \in 1..ManyEvents : AttachSession(i, i)
    \/ \E p \in SeqProcs, g \in Gran, s \in Sites : Begin(p, g, s, 0, 0, DefaultSpan(g))
    \/ \E p \in SeqProcs : EndOfRange(p)
    \/ \E p \in SeqProcs : GetOrCreate(p)
    \/ \E p \in SeqProcs : SelectPageviews(p)
    \/ \E p \in SeqProcs : Update(p)
    \/ \E p \in SeqProcs : Commit(p)
    \/ \E p \in SeqProcs : Return(p)

ManySpec == Init /\ [][ManyNext]_vars

\* Hourly and daily runs in pairs: the scheduler requests the hourly
\* aggregation of every hour of the first day and the daily aggregation of
\* that day together, in either order; the worker runs the two one after the
\* other.  Pageviews arrive between the pairs, committed up to MaxLate ticks
\* after their created_at was stamped.
MaxLate == 1

\* No request waits and no command runs.
Settled == queue = <<>> /\ \A p \in SeqProcs : proc[p].pc = "idle"

\* The request for the first day (g = "day") or for all its hours.
PairJob(g, s) ==
    [g |-> g, site |-> s, start |-> 0,
     end |-> IF g = "hour" THEN TicksPerDay - TicksPerHour ELSE 0]

\* q.enqueue(call_command, "aggregate_hourly_stats", ...) and
\* q.enqueue(call_command, "aggregate_daily_stats", ...) for site s.
EnqueuePair(s, g, h) ==
    /\ Settled
    /\ g # h
    /\ queue' = <<PairJob(g, s), PairJob(h, s)>>
    /\ UNCHANGED <<now, events, stats, proc, queued, grp, sess, fresh>>

PairNext ==
    \/ Settled /\ Tick
    \/ \E s \in Sites, lag \in 0..MaxLate : Settled /\ InsertEvent(s, lag)
    \/ \E s \in Sites, g \in Gran, h \in Gran : EnqueuePair(s, g, h)
    \/ \E p \in SeqProcs : Dequeue(p)
    \/ \E p \in SeqProcs : EndOfRange(p)
    \/ \E p \in SeqProcs : GetOrCreate(p)
    \/ \E p \in SeqProcs : SelectPageviews(p)
    \/ \E p \in SeqProcs : Update(p)
    \/ \E p \in SeqProcs : Commit(p)
    \/ \E p \in SeqProcs : Return(p)

PairSpec == Init /\ [][PairNext]_vars

\* ------------------------------------------------------------- claims
\* The pageviews of the bucket process p works on.
BucketEvents(r) == InBucket(events, r.site, BucketStart(r.g, r.cur), BucketEnd(r.g, r.cur))

\* Process p has run the body of a bucket's transaction: r.row is the row as
\* the transaction leaves it (pageviews cannot change until it ends).
AtCommit(p) == proc[p].pc = "commit"

\* C1: after each run of a bucket, in a sequence of runs interleaved with
\* pageview insertions, the row's pageview_count is the number of the site's
\* pageviews in [bucket_start, bucket_end) at that time.
C1_ExactCount ==
    \A p \in SeqProcs :
        AtCommit(p) => proc[p].row.pageview_count = Cardinality(BucketEvents(proc[p]))

\* C3: a run over a bucket that an earlier run completed on, with no pageview
\* inserted into it since, leaves pageview_count, unique_session_count and the
\* watermark of the row as they were.
C3_Idempotent ==
    \A p \in SeqProcs :
        (AtCommit(p) /\ <<proc[p].g, proc[p].site, proc[p].cur>> \in fresh)
            => /\ HasRow(stats, proc[p].g, proc[p].site, proc[p].cur)
               /\ proc[p].row = stats[proc[p].g][<<proc[p].site, proc[p].cur>>]
               /\ ~proc[p].wrote

\* A second run over a bucket that holds counted pageviews ends.
C3_Witness ==
    \E p \in SeqProcs :
        /\ AtCommit(p)
        /\ <<proc[p].g, proc[p].site, proc[p].cur>> \in fresh
        /\ proc[p].row.pageview_count = MaxEvents
        /\ proc[p].row.last_processed_pageview_id # NoId
        /\ \E i \in BucketEvents(proc[p]) : events[i].session # NoSession

\* C4: after every run of a bucket, unique_session_count is the number of
\* distinct non-null sessions among the bucket's pageviews.
C4_SessionsExact ==
    \A p \in SeqProcs :
        AtCommit(p) =>
            proc[p].row.unique_session_count =
                Cardinality(AllSessions(events, proc[p].site, BucketStart(proc[p].g, proc[p].cur),
                                        BucketEnd(proc[p].g, proc[p].cur)))

RowEvents(g, k) == InBucket(events, k[1], BucketStart(g, k[2]), BucketEnd(g, k[2]))

\* Processes p and q are inside transactions on the same bucket.
Overlap(p, q) ==
    /\ p # q
    /\ proc[p].pc \in {"select", "update", "commit"}
    /\ proc[q].pc \in {"select", "update", "commit"}
    /\ <<proc[p].g, proc[p].site, proc[p].cur>> = <<proc[q].g, proc[q].site, proc[q].cur>>

\* C2: however two runs on the same (site, bucket) interleave, every
\* committed pageview_count is at most the number of the site's pageviews in
\* the bucket: no pageview is counted twice.
C2_NoDoubleCount ==
    \A g \in Gran : \A k \in DOMAIN stats[g] :
        stats[g][k].pageview_count <= Cardinality(RowEvents(g, k))

\* Two overlapping runs have read the same row and selected the same
\* pageviews; one has written its count and waits to commit.
C2_Witness ==
    \E p \in Procs, q \in Procs :
        /\ Overlap(p, q)
        /\ proc[p].pc = "commit" /\ proc[p].wrote
        /\ proc[q].pc = "update"
        /\ proc[p].pageviews # {}
        /\ proc[q].pageviews = proc[p].pageviews

\* C6: from one committed state of a row to the next, also when runs overlap,
\* the row stays and its pageview_count does not decrease.
C6_CountNeverDecreases ==
    [][\A g \in Gran : \A k \in DOMAIN stats[g] :
          /\ k \in DOMAIN stats'[g]
          /\ stats'[g][k].pageview_count >= stats[g][k].pageview_count]_vars

\* A run is about to commit a larger count to a row that holds one, while
\* another run is inside its transaction on the same bucket.
C6_Witness ==
    \E p \in Procs, q \in Procs :
        /\ Overlap(p, q)
        /\ proc[p].pc = "commit" /\ proc[p].wrote
        /\ HasRow(stats, proc[p].g, proc[p].site, proc[p].cur)
        /\ stats[proc[p].g][<<proc[p].site, proc[p].cur>>].pageview_count >= 1
        /\ proc[p].row.pageview_count > stats[proc[p].g][<<proc[p].site, proc[p].cur>>].pageview_count

\* The days covered by a sequence of (start, end) day ranges.
DaysCovered(ranges) == UNION {ranges[i][1]..ranges[i][2] : i \in DOMAIN ranges}

\* The daily scan of process p has emitted every range of its current site.
DailyScanned(p) ==
    /\ proc[p].pc = "scan_days"
    /\ proc[p].scan_site # None
    /\ proc[p].ranges = <<>>

\* C7: when the daily scan is through with a site, the days covered by the
\* ranges it emitted and the days that had a row when it read them are
\* disjoint, and together they are the days start..end of the window.
C7_DailyScanPartition ==
    \A p \in SeqProcs :
        DailyScanned(p) =>
            /\ DaysCovered(proc[p].emitted) \cap proc[p].existing = {}
            /\ DaysCovered(proc[p].emitted) \cup proc[p].existing
                   = proc[p].scan_start..proc[p].scan_end

\* A window with a day that has a row between two days that have none.
C7_Witness ==
    \E p \in SeqProcs :
        /\ DailyScanned(p)
        /\ Len(proc[p].emitted) = 2
        /\ proc[p].existing # {}

\* The buckets of the window of a finished scan <<scan, start, end, n>>.
WindowBuckets(ls) ==
    IF ls[1] = "scan_days" THEN ls[2]..ls[3]
    ELSE {b \in ls[2]..(ls[3] - 1) : TruncateToHour(b) = b}

\* C8: once a scan has run and every request it emitted has been executed,
\* every bucket of its window has a row, and a scan of the same window that
\* follows emits no request.
C8_ScanFillsWindow ==
    \A p \in SeqProcs :
        /\ (proc[p].pc = "idle" /\ queue = <<>> /\ proc[p].last_scan # <<>>)
               => \A s \in Sites : \A b \in WindowBuckets(proc[p].last_scan) :
                      HasRow(stats, IF proc[p].last_scan[1] = "scan_days" THEN "day" ELSE "hour",
                             s, b)
        /\ (proc[p].scan # "none" /\ proc[p].rescan)
               => proc[p].scan_n = 0 /\ proc[p].emitted = <<>> /\ queue = <<>>

\* A scan that emitted two requests or more is followed by a scan of the same
\* window, which has gone through every site.
C8_Witness ==
    \E p \in SeqProcs :
        /\ proc[p].pc \in {"scan_hours", "scan_days"}
        /\ proc[p].rescan
        /\ proc[p].last_scan[4] >= 2
        /\ SiteScanned(proc[p])
        /\ proc[p].scan_site # None
        /\ proc[p].scan_sites = <<>>

\* C9: the ranges one scan emits for one site, each read as the aggregation
\* command reads it (from start to end, both included), are pairwise
\* non-overlapping and ascending: each ends before the next one starts.
C9_RangesDisjointAscending ==
    \A p \in SeqProcs :
        proc[p].scan # "none" =>
            \A i \in DOMAIN proc[p].emitted : \A j \in DOMAIN proc[p].emitted :
                i < j => /\ proc[p].emitted[i][1] < proc[p].emitted[j][1]
                         /\ proc[p].emitted[i][2] < proc[p].emitted[j][1]

\* The set of days of a list of days.
DaySet(days) == {days[i] : i \in DOMAIN days}

\* C10: _group_consecutive_days returns the maximal runs of consecutive days
\* of its input: every range holds input days only, the ranges cover the
\* input, successive ranges are separated by a day that is not in the input;
\* {0, 1, 2, 4} gives <<0, 2>>, <<4, 4>> and no day gives no range.
C10_MaximalRuns ==
    grp.pc = "returned" =>
        /\ \A i \in DOMAIN grp.ranges :
               /\ grp.ranges[i][1] <= grp.ranges[i][2]
               /\ \A d \in grp.ranges[i][1]..grp.ranges[i][2] : d \in DaySet(grp.days)
        /\ DaysCovered(grp.ranges) = DaySet(grp.days)
        /\ \A i \in 1..(Len(grp.ranges) - 1) : grp.ranges[i + 1][1] > grp.ranges[i][2] + 1
        /\ (DaySet(grp.days) = {0, 1, 2, 4} => grp.ranges = <<<<0, 2>>, <<4, 4>>>>)
        /\ (grp.days = <<>> => grp.ranges = <<>>)

\* The days 0, 1, 2 and 4, given out of order, are grouped into two ranges.
C10_Witness ==
    /\ grp.pc = "returned"
    /\ grp.days = <<4, 1, 0, 2>>
    /\ grp.ranges = <<<<0, 2>>, <<4, 4>>>>

\* The hourly scan of process p has gone through the window for its site.
HourlyScanned(p) ==
    /\ proc[p].pc = "scan_hours"
    /\ proc[p].scan_site # None
    /\ proc[p].scan_cur >= proc[p].scan_end

\* The hours of the window of p's scan that had no row when the scan took
\* the site.
MissingHours(p) ==
    {h \in proc[p].scan_start..(proc[p].scan_end - 1) :
        TruncateToHour(h) = h /\ h \notin proc[p].existing}

\* C11: when the hourly scan is through with a site, it has emitted exactly
\* one request (H, H+1h) for every hour H of [start_window, end_window) that
\* had no row when the scan started, and no other request, whether requests
\* are queued or run inline.
C11_OneRequestPerMissingHour ==
    \A p \in SeqProcs :
        HourlyScanned(p) =>
            /\ {proc[p].emitted[i] : i \in DOMAIN proc[p].emitted}
                   = {<<h, h + TicksPerHour>> : h \in MissingHours(p)}
            /\ Len(proc[p].emitted) = Cardinality(MissingHours(p))

\* C12: in the worked example, the run over the first hour's window leaves
\* that hour's row with pageview_count 3 and unique_session_count 2, and the
\* run over the next hour's window that follows it finds that hour's row
\* newly created, with zero counts and no watermark.
C12_Example ==
    \A p \in SeqProcs :
        /\ HasRow(stats, "hour", 1, 0) =>
               /\ stats["hour"][<<1, 0>>].pageview_count = 3
               /\ stats["hour"][<<1, 0>>].unique_session_count = 2
        /\ ( /\ HasRow(stats, "hour", 1, 0)
             /\ ~HasRow(stats, "hour", 1, 2 * TicksPerHour)
             /\ proc[p].pc \in {"select", "update", "commit"}
             /\ proc[p].start = TicksPerHour
             /\ proc[p].cur = TicksPerHour )
               => /\ proc[p].created
                  /\ proc[p].row = ZeroRow

\* The first half of C12 alone: the counts of the first hour's row.
C12_FirstHour ==
    HasRow(stats, "hour", 1, 0) =>
        /\ stats["hour"][<<1, 0>>].pageview_count = 3
        /\ stats["hour"][<<1, 0>>].unique_session_count = 2
        /\ stats["hour"][<<1, 0>>].last_processed_pageview_id # NoId

\* Process p has run the body of the transaction of a day bucket that holds
\* no pageview.
EmptyDayRun(p) ==
    /\ AtCommit(p)
    /\ proc[p].g = "day"
    /\ BucketEvents(proc[p]) = {}

\* C13: a run over a day without pageviews and without a row creates the
\* zero row and counts it as created; a run over such a day that has a row
\* leaves the row as it is, writes nothing and counts it neither as created
\* nor as updated; and the daily scan requests no day that has a row.
C13_EmptyDay ==
    \A p \in SeqProcs :
        /\ (EmptyDayRun(p) /\ proc[p].created) =>
               /\ proc[p].row = ZeroRow
               /\ proc[p].created_count >= 1
               /\ (proc[p].cur = proc[p].start => proc[p].created_count = 1)
               /\ proc[p].updated_count = 0
        /\ (EmptyDayRun(p) /\ ~proc[p].created) =>
               /\ proc[p].row = stats["day"][<<proc[p].site, proc[p].cur>>]
               /\ ~proc[p].wrote
               /\ (proc[p].cur = proc[p].start => proc[p].created_count = 0)
               /\ proc[p].updated_count = 0
        /\ proc[p].scan = "scan_days" =>
               \A d \in DaysCovered(proc[p].ranges) :
                   ~HasRow(stats, "day", proc[p].scan_site, d)

\* A second run over a day without pageviews, whose zero row exists.
C13_Witness ==
    \E p \in SeqProcs :
        /\ EmptyDayRun(p)
        /\ ~proc[p].created
        /\ proc[p].cur = proc[p].start
        /\ stats["day"][<<proc[p].site, proc[p].cur>>] = ZeroRow

\* C14: a command started by the current-hour trigger loads or creates the
\* row of the current hour only, and one started by the current-day trigger
\* the row of the current day only: no row of another bucket is loaded,
\* created or modified.
C14_CurrentBucketOnly ==
    /\ \A p \in SeqProcs :
           proc[p].pc \in {"select", "update", "commit"}
               => proc[p].cur = Align(proc[p].g, now)
    /\ \A g \in Gran : \A k \in DOMAIN stats[g] : k[2] = Align(g, now)

\* The buckets of its current site that the run of process p has behind it.
BucketsBehind(p) ==
    {k \in DOMAIN stats[proc[p].g] :
        /\ k[1] = proc[p].site
        /\ k[2] >= FirstBucket(proc[p].g, proc[p].start)
        /\ k[2] < proc[p].cur}

\* C15: a bucket that raised an error does not stop the run, which goes on
\* with the next bucket, and the counts the run returns are those of the
\* buckets that succeeded: between two buckets, every bucket the run has
\* counted as created has its row.
C15_CountsOfSucceeded ==
    \A p \in Procs :
        proc[p].pc = "bucket" =>
            /\ proc[p].cur >= FirstBucket(proc[p].g, proc[p].start)
            /\ proc[p].created_count <= Cardinality(BucketsBehind(p))

\* The first half of C15 alone: a run in which a bucket failed has gone on to
\* the buckets after it and ends.
C15_GoesOn ==
    \A p \in Procs :
        (proc[p].pc = "done" /\ proc[p].errors >= 1) => proc[p].cur > proc[p].end

\* The command whose locals are r was given a --start or --end that does not
\* parse, or a --site that matches no site.
InvalidArgs(r) ==
    \/ r.start = Malformed
    \/ r.end = Malformed
    \/ r.site # None /\ r.site \notin Sites

\* C16: a command given a malformed --start or --end, or a --site matching
\* no site, ends with an error message without entering any bucket: it reads,
\* creates and writes no row and counts nothing.
C16_InvalidRefused ==
    \A p \in SeqProcs :
        (proc[p].pc # "idle" /\ InvalidArgs(proc[p])) =>
            /\ proc[p].pc = "done"
            /\ proc[p].result = "error"
            /\ proc[p].lock = "none" /\ ~proc[p].wrote
            /\ proc[p].total_created = 0
            /\ proc[p].total_updated = 0
            /\ proc[p].total_processed = 0

\* A command for a site that does not exist, with a window that parses and
\* the store reachable, has ended, after an earlier command created rows.
C16_Witness ==
    \E p \in SeqProcs :
        /\ proc[p].pc = "done"
        /\ proc[p].site = NumSites + 1
        /\ proc[p].start # Malformed /\ proc[p].end # Malformed
        /\ proc[p].store = "up"
        /\ proc[p].result = "error"
        /\ DOMAIN stats["hour"] # {}

\* C17: a command during which the store could not be reached ends in an
\* error outcome: an error message in place of the completion message, or an
\* exception.
C17_UnreachableIsError ==
    \A p \in SeqProcs :
        (proc[p].pc = "done" /\ proc[p].store = "down")
            => proc[p].result \in {"error", "raised"}

\* The rows of key k in the table of granularity g: the committed one and
\* those inserted by transactions that are still open.
Inserting(g, k) ==
    {p \in Procs : /\ proc[p].pc \in {"select", "update", "commit"}
                   /\ proc[p].created
                   /\ proc[p].g = g
                   /\ <<proc[p].site, proc[p].cur>> = k}

RowsOf(g, k) == (IF k \in DOMAIN stats[g] THEN 1 ELSE 0) + Cardinality(Inserting(g, k))

\* C18: in every state, committed or inside open transactions, the hourly
\* table and the daily table hold at most one row per (site, bucket), also
\* when two overlapping runs both find no row for the same bucket.
C18_OneRowPerBucket ==
    \A g \in Gran : \A s \in Sites : \A b \in 0..(MaxTime + 1) :
        RowsOf(g, <<s, b>>) <= 1

\* Two overlapping runs found no row for the same bucket: one has inserted
\* it and is still in its transaction, the other's insert has just failed.
C18_Witness ==
    \E p \in Procs, q \in Procs :
        /\ p # q
        /\ Inserting(proc[p].g, <<proc[p].site, proc[p].cur>>) = {p}
        /\ <<proc[p].site, proc[p].cur>> \notin DOMAIN stats[proc[p].g]
        /\ proc[q].g = proc[p].g /\ proc[q].site = proc[p].site
        /\ proc[q].start = proc[p].cur
        /\ proc[q].pc = "bucket" /\ proc[q].cur = NextBucket(proc[q].g, proc[q].start)
        /\ proc[q].errors = 1

\* The sessions of the pageviews of the bucket of key k.
RowSessions(g, k) == AllSessions(events, k[1], BucketStart(g, k[2]), BucketEnd(g, k[2]))

\* C19: what a reader sees of a row changes only as a whole.  A row that
\* becomes visible already counts the pageviews of its bucket and carries
\* their watermark (zero counters only when the bucket is empty); a visible
\* row that changes gets its new count, its recounted sessions and its new
\* watermark in the same step.
C19_NoPartialRow ==
    [][\A g \in Gran : \A k \in DOMAIN stats'[g] :
          LET new == stats'[g][k]
          IN IF k \notin DOMAIN stats[g]
             THEN /\ new.pageview_count = Cardinality(RowEvents(g, k))
                  /\ new.unique_session_count = Cardinality(RowSessions(g, k))
                  /\ (new.last_processed_pageview_id = NoId) <=> (RowEvents(g, k) = {})
             ELSE new # stats[g][k] =>
                  /\ new.pageview_count > stats[g][k].pageview_count
                  /\ new.unique_session_count = Cardinality(RowSessions(g, k))
                  /\ new.last_processed_pageview_id # NoId
                  /\ new.last_processed_pageview_id # stats[g][k].last_processed_pageview_id
      ]_vars

\* A run has inserted a row and folded pageviews into it, and waits to
\* commit: no reader sees the row yet.
C19_Witness ==
    \E p \in Procs :
        /\ proc[p].pc = "commit" /\ proc[p].created /\ proc[p].wrote
        /\ proc[p].pageviews # {}
        /\ proc[p].row.pageview_count = Cardinality(proc[p].pageviews)
        /\ <<proc[p].site, proc[p].cur>> \notin DOMAIN stats[proc[p].g]

\* Process p has read the committed row of its bucket, has selected the
\* pageviews after the row's watermark to fold into it, and has not yet ended
\* its transaction.
ReadForUpdate(p) ==
    /\ proc[p].pc \in {"update", "commit"}
    /\ ~proc[p].created
    /\ proc[p].pageviews # {}

\* C20: for each (site, bucket) row at most one run at a time is between
\* reading the row's counters and watermark and committing its update: no
\* two runs are inside their transactions on one row having read the same
\* watermark.
C20_OneRunPerRow ==
    \A p \in Procs, q \in Procs :
        (Overlap(p, q) /\ ReadForUpdate(p) /\ ReadForUpdate(q)) =>
            proc[p].row.last_processed_pageview_id # proc[q].row.last_processed_pageview_id

\* The buckets of the window of r's command.
WindowOf(r) ==
    {b \in FirstBucket(r.g, r.start)..r.end :
        \E n \in 0..(r.end + 1) : b = FirstBucket(r.g, r.start) + Span(r.g, n)}

\* The rows one pass of the bucket's body can leave for bucket b of site s,
\* from the committed rows st and the pageviews evs.
RunBucket(evs, st, g, s, b) ==
    LET created == <<s, b>> \notin DOMAIN st[g]
        row == IF created THEN ZeroRow ELSE st[g][<<s, b>>]
        sel == PageviewsQuery(evs, g, s, b, created, row)
    IN IF sel = {} THEN {row}
       ELSE {UpdatedRow(evs, g, s, b, created, row, sel, l) : l \in LastOf(evs, sel)}

\* C21: a run is cancelled after committing some of its buckets.  Every row
\* of the window is then either as it was at the run's start or as one pass
\* over its bucket leaves it; and when the same command has then run to its
\* end, with no pageview inserted since the cancelled run began, every bucket
\* of the window has the row that an uninterrupted run from the same start
\* leaves.
C21_CancelThenRerun ==
    \A p \in SeqProcs :
        LET r == proc[p]
            Was(b) == IF <<r.site, b>> \in DOMAIN r.snap.stats[r.g]
                      THEN {r.snap.stats[r.g][<<r.site, b>>]} ELSE {}
            Is(b) == IF <<r.site, b>> \in DOMAIN stats[r.g]
                     THEN {stats[r.g][<<r.site, b>>]} ELSE {}
            Whole(b) == RunBucket(events, r.snap.stats, r.g, r.site, b)
        IN /\ (r.phase = "cancelled") =>
                 \A b \in WindowOf(r) : Is(b) = Was(b) \/ Is(b) \subseteq Whole(b)
           /\ (r.phase = "rerun" /\ r.pc = "done") =>
                 \A b \in WindowOf(r) : Is(b) # {} /\ Is(b) \subseteq Whole(b)

\* A run was cancelled after it had committed a bucket with pageviews and
\* before it reached the last bucket of its window; the same command has then
\* run to its end.
C21_Witness ==
    \E p \in SeqProcs :
        /\ proc[p].phase = "rerun" /\ proc[p].pc = "done"
        /\ Cardinality(WindowOf(proc[p])) >= 2
        /\ proc[p].total_created >= 1
        /\ proc[p].total_created < Cardinality(WindowOf(proc[p]))
        /\ \E b \in WindowOf(proc[p]) :
              /\ <<proc[p].site, b>> \notin DOMAIN proc[p].snap.stats[proc[p].g]
              /\ stats[proc[p].g][<<proc[p].site, b>>].pageview_count >= 1

\* The keys of granularity g whose row differs between two tables, or is in
\* one only.
ChangedKeys(st, nw, g) ==
    {k \in DOMAIN st[g] \cup DOMAIN nw[g] :
        \/ k \notin DOMAIN st[g]
        \/ k \notin DOMAIN nw[g]
        \/ st[g][k] # nw[g][k]}

\* Process p runs a command (it is between the command's start and its end).
Running(p) == proc[p].pc \in {"bucket", "select", "update", "commit"}

\* C22: a step of a command changes no pageview (none is deleted, none gets
\* another created_at, site or session), and every row that changes, appears
\* or disappears is changed by a step of a run for the row's site, at the
\* row's granularity, over a window that holds the row's bucket.
C22_Frame ==
    [][/\ proc' # proc => events' = events
       /\ \A g \in Gran : \A k \in ChangedKeys(stats, stats', g) :
             \E p \in SeqProcs :
                /\ Running(p) /\ proc'[p] # proc[p]
                /\ g = proc[p].g
                /\ k[1] = proc[p].site
                /\ k[2] \in WindowOf(proc[p])
      ]_vars

\* A run for one site has written the row of a bucket with pageviews and is
\* about to commit it, while the other site has a row and a pageview in the
\* same bucket, the run's site has a row of the other granularity, and a row
\* outside the window.
C22_Witness ==
    \E p \in SeqProcs :
        LET r == proc[p]
        IN /\ r.pc = "commit" /\ r.wrote /\ r.pageviews # {}
           /\ \E s \in FrameSites \ {r.site} :
                 /\ <<s, r.cur>> \in DOMAIN stats[r.g]
                 /\ InBucket(events, s, BucketStart(r.g, r.cur), BucketEnd(r.g, r.cur)) # {}
           /\ \E g \in Gran \ {r.g} : \E k \in DOMAIN stats[g] : k[1] = r.site
           /\ \E k \in DOMAIN stats[r.g] : k[1] = r.site /\ k[2] \notin WindowOf(r)

\* Two timestamps lie in the same 30-minute window [hh:00, hh:30) or
\* [hh:30, hh+1:00) of the same hour of the same day.
SameWindow(t, u) ==
    /\ t.datehour = u.datehour
    /\ (t.minute < WindowMinutes) <=> (u.minute < WindowMinutes)

\* C23: for the same IP address and user agent two timestamps get the same
\* key exactly when they lie in the same 30-minute window, and calls with
\* different IP addresses or different user agents get different keys.
C23_KeyWindowExact ==
    \A i \in DOMAIN sess.calls : \A j \in DOMAIN sess.calls :
        LET c == sess.calls[i]
            d == sess.calls[j]
        IN /\ (c.ip = d.ip /\ c.ua = d.ua) =>
                 ((c.key = d.key) <=> SameWindow(c.timestamp, d.timestamp))
           /\ (c.ip # d.ip \/ c.ua # d.ua) => c.key # d.key

\* The keys of the calls so far.
KeysOf(calls) == {calls[i].key : i \in DOMAIN calls}

\* The calls so far are events whose first and last are 45 minutes (a window
\* and a half) apart.
Spans45(calls) ==
    /\ Len(calls) >= 2
    /\ SecondsOf(calls[Len(calls)].timestamp) - SecondsOf(calls[1].timestamp)
          = (WindowMinutes + WindowMinutes \div 2) * 60

\* C24 as stated: events of one IP address and user agent whose first and
\* last are 45 minutes apart get exactly two distinct session keys.
C24_ExactlyTwoKeys ==
    Spans45(sess.calls) => Cardinality(KeysOf(sess.calls)) = 2

\* C24, amended: such events get two or three distinct session keys, and the
\* first and the last event never get the same key.
C24_TwoOrThreeKeys ==
    Spans45(sess.calls) =>
        /\ Cardinality(KeysOf(sess.calls)) \in {2, 3}
        /\ sess.calls[1].key # sess.calls[Len(sess.calls)].key

\* Three events, the first and the last 45 minutes apart, in three windows.
C24_Witness ==
    /\ Len(sess.calls) = 3
    /\ Spans45(sess.calls)
    /\ Cardinality(KeysOf(sess.calls)) = 3

\* C26: in every state of every Session row, from its creation on, is_bounce
\* is true exactly when page_view_count is 1.
C26_BounceIffOne ==
    \A r \in DOMAIN sess.rows :
        sess.rows[r].is_bounce <=> (sess.rows[r].page_view_count = 1)

\* C27: when update_metrics has run on a session with n >= 1 pageviews
\* attached, and none was attached since, page_view_count is n, duration is
\* the seconds between the earliest and the latest pageview's created_at, and
\* exit_page is the path of a latest pageview.
C27_MetricsExact ==
    \A r \in DOMAIN sess.rows :
        LET ids == PageViewsOf(sess.views, r)
            row == sess.rows[r]
        IN (row.synced /\ ids # {}) =>
              /\ row.page_view_count = Cardinality(ids)
              /\ \A f \in FirstViews(sess.views, ids), l \in LastViews(sess.views, ids) :
                    row.duration = sess.views[l].created_at - sess.views[f].created_at
              /\ \E l \in LastViews(sess.views, ids) : row.exit_page = sess.views[l].path

\* C25: two events with the same IP address, user agent and window that
\* belong to different sites are resolved to two different Session rows, each
\* a row of its event's site.
C25_RowPerSite ==
    \A i \in DOMAIN sess.views : \A j \in DOMAIN sess.views :
        LET v == sess.views[i]
            w == sess.views[j]
        IN (v.ip = w.ip /\ v.ua = w.ua /\ SameWindow(v.timestamp, w.timestamp)
               /\ v.site # w.site) =>
              /\ v.session # NoRow /\ w.session # NoRow
              /\ v.session # w.session
              /\ sess.rows[v.session].site = v.site
              /\ sess.rows[w.session].site = w.site

\* C28: a tracking request whose sid names a site is answered 200 and adds
\* exactly one pageview, of that site, not processed and without a session,
\* leaving the pageviews before it and the aggregate rows as they are; a
\* request without sid is answered 400 and one whose sid names no site 404,
\* and neither changes the pageviews or the rows.
C28_TrackingRequest ==
    [][Len(sess'.requests) = Len(sess.requests) + 1 =>
          LET q == sess'.requests[Len(sess'.requests)]
          IN /\ stats' = stats
             /\ IF q.sid = None
                THEN q.status = 400 /\ events' = events
                ELSE IF q.sid \notin Sites
                THEN q.status = 404 /\ events' = events
                ELSE /\ q.status = 200
                     /\ Len(events') = Len(events) + 1
                     /\ SubSeq(events', 1, Len(events)) = events
                     /\ events'[Len(events')].site = q.sid
                     /\ events'[Len(events')].is_processed = FALSE
                     /\ events'[Len(events')].session = NoSession
      ]_vars

\* The three kinds of request have been answered, while an aggregate row
\* exists.
C28_Witness ==
    /\ \E i \in DOMAIN sess.requests : sess.requests[i].status = 200
    /\ \E i \in DOMAIN sess.requests : sess.requests[i].status = 400
    /\ \E i \in DOMAIN sess.requests : sess.requests[i].status = 404
    /\ Len(events) = 1
    /\ DOMAIN stats["hour"] # {}

\* The aligned buckets from lo to hi, ascending.
BucketSeq(g, lo, hi) ==
    IF lo > hi THEN <<>>
    ELSE [i \in 1..((hi - lo) \div Span(g, 1) + 1) |-> lo + Span(g, i - 1)]

\* The bucket of a window's start or end: the hour of a timestamp, the day
\* itself.
BucketOf(g, t) == IF g = "hour" THEN (t \div TicksPerHour) * TicksPerHour ELSE t

\* The buckets the run of process p has to load or create: from the bucket
\* of the start of its window to the bucket of its end.
Expected(p) ==
    BucketSeq(proc[p].g, BucketOf(proc[p].g, proc[p].window[1]),
              BucketOf(proc[p].g, proc[p].window[2]))

\* The run of process p over its last site has returned its counts.
Completed(p) == proc[p].pc = "done" /\ proc[p].result = "completed"

\* C29 as stated: a run loads or creates exactly the aligned buckets from the
\* bucket of windowStart to the bucket of windowEnd, once each and ascending,
\* the bucket of an aligned windowEnd included, and none when
\* windowStart > windowEnd.
C29_BucketsOfWindow ==
    \A p \in SeqProcs :
        Completed(p) =>
            /\ proc[p].visited = Expected(p)
            /\ proc[p].window[1] > proc[p].window[2] => proc[p].visited = <<>>

\* C29, amended: the same, with none when the bucket of windowStart is after
\* the bucket of windowEnd.
C29_BucketsOfAlignedWindow ==
    \A p \in SeqProcs :
        Completed(p) =>
            /\ proc[p].visited = Expected(p)
            /\ BucketOf(proc[p].g, proc[p].window[1]) > BucketOf(proc[p].g, proc[p].window[2])
                  => proc[p].visited = <<>>

\* An hourly run over a window that starts inside an hour and ends on the
\* first instant of the next has processed both hours.
C29_Witness ==
    \E p \in SeqProcs :
        /\ Completed(p)
        /\ proc[p].g = "hour"
        /\ TruncateToHour(proc[p].window[1]) # proc[p].window[1]
        /\ TruncateToHour(proc[p].window[2]) = proc[p].window[2]
        /\ Len(proc[p].visited) = 2
        /\ proc[p].visited[2] = proc[p].window[2]

\* C30: the body of a bucket that selected no pageview leaves an existing
\* row's pageview_count, unique_session_count and watermark as they are, in
\* the transaction and in the table, and counts the bucket neither as updated
\* nor as created; a row that the run created is counted as created, once,
\* and not as updated, whether or not pageviews were selected.
C30_EmptySelection ==
    [][\A p \in SeqProcs :
          LET r == proc[p]
              n == proc'[p]
          IN /\ (r.pc = "update" /\ n.pc = "commit" /\ ~r.created /\ r.pageviews = {}) =>
                   /\ n.row = stats[r.g][<<r.site, r.cur>>]
                   /\ ~n.wrote
                   /\ n.updated_count = r.updated_count
                   /\ n.created_count = r.created_count
             /\ (r.pc = "commit" /\ n.pc # "commit" /\ ~r.created /\ r.pageviews = {}) =>
                   stats' = stats
             /\ (r.pc = "update" /\ n.pc = "commit" /\ r.created) =>
                   /\ n.created_count = r.created_count + 1
                   /\ n.updated_count = r.updated_count
      ]_vars

\* A run has created the row of its first bucket from pageviews, counted it
\* as created only, and has then found nothing to select for its second
\* bucket, whose row existed.
C30_Witness ==
    \E p \in SeqProcs :
        /\ proc[p].pc = "commit"
        /\ ~proc[p].created /\ proc[p].pageviews = {}
        /\ Len(proc[p].visited) = 2
        /\ proc[p].created_count = 1
        /\ proc[p].updated_count = 0
        /\ proc[p].processed_pageviews >= 1

\* The watermark of the row committed for key k of granularity g.
Watermark(g, k) == stats[g][k].last_processed_pageview_id

\* C31: a run that folded pageviews into a bucket leaves as watermark a
\* selected pageview whose created_at is the greatest among those it
\* selected; a run that finds a watermark selects exactly the bucket's
\* pageviews with created_at strictly greater than the watermark pageview's;
\* and from one committed watermark of a row to the next the watermark
\* pageview's created_at does not decrease.
C31_Watermark ==
    /\ [](\A p \in SeqProcs :
            LET r == proc[p]
                k == <<r.site, r.cur>>
            IN /\ (AtCommit(p) /\ r.pageviews # {}) =>
                     /\ r.row.last_processed_pageview_id \in r.pageviews
                     /\ \A j \in r.pageviews :
                          events[j].created_at
                              <= events[r.row.last_processed_pageview_id].created_at
               /\ (r.pc \in {"update", "commit"} /\ ~r.created /\ Watermark(r.g, k) # NoId) =>
                     r.pageviews = {i \in BucketEvents(r) :
                                      events[i].created_at
                                          > events[Watermark(r.g, k)].created_at})
    /\ [][\A g \in Gran : \A k \in DOMAIN stats[g] :
            Watermark(g, k) # NoId =>
                /\ stats'[g][k].last_processed_pageview_id # NoId
                /\ events'[stats'[g][k].last_processed_pageview_id].created_at
                       >= events[Watermark(g, k)].created_at]_vars

\* A run on a row that has a watermark has selected the one pageview created
\* after the watermark pageview, out of the two of the bucket, and is about to
\* commit it as the new watermark.
C31_Witness ==
    \E p \in SeqProcs :
        LET r == proc[p]
            k == <<r.site, r.cur>>
        IN /\ AtCommit(p) /\ ~r.created /\ r.wrote
           /\ Watermark(r.g, k) # NoId
           /\ Cardinality(BucketEvents(r)) = 2
           /\ Cardinality(r.pageviews) = 1
           /\ r.row.last_processed_pageview_id # Watermark(r.g, k)
           /\ events[r.row.last_processed_pageview_id].created_at
                  > events[Watermark(r.g, k)].created_at

\* C32: every hourly row that aggregation writes has its bucket on a UTC hour
\* boundary, whatever --start and --end the command accepts, hour-aligned or
\* not and with or without a UTC offset; every daily row's bucket is the UTC
\* calendar date of the pageviews it counts.
C32_UtcBuckets ==
    /\ \A k \in DOMAIN stats["hour"] : TruncateToHour(k[2]) = k[2]
    /\ \A p \in SeqProcs :
          (AtCommit(p) /\ proc[p].g = "day") =>
              \A i \in proc[p].pageviews : DateOf(events[i].created_at) = proc[p].cur

\* C33: in every state reached by pageview insertions, session attachment
\* and runs of the commands one after another, every aggregate row has
\* unique_session_count <= pageview_count.
C33_SessionsAtMostPageviews ==
    \A g \in Gran : \A k \in DOMAIN stats[g] :
        stats[g][k].unique_session_count <= stats[g][k].pageview_count

\* C34: in every reachable state a row has no watermark exactly when its
\* pageview_count is 0, and a watermark is the id of an existing pageview of
\* the row's site whose created_at lies in [bucket_start, bucket_end) of the
\* row.
C34_WatermarkIffCounted ==
    \A g \in Gran : \A k \in DOMAIN stats[g] :
        /\ Watermark(g, k) = NoId <=> stats[g][k].pageview_count = 0
        /\ Watermark(g, k) # NoId =>
              /\ Watermark(g, k) \in Ids
              /\ events[Watermark(g, k)].site = k[1]
              /\ events[Watermark(g, k)].created_at >= BucketStart(g, k[2])
              /\ events[Watermark(g, k)].created_at < BucketEnd(g, k[2])

\* An hourly row without pageviews and an hourly row with a watermark are
\* both committed, and a run has read the second and is about to commit a
\* later watermark to it.
C34_Witness ==
    /\ \E k \in DOMAIN stats["hour"] :
          Watermark("hour", k) = NoId /\ stats["hour"][k].pageview_count = 0
    /\ \E p \in Procs :
          LET r == proc[p]
          IN /\ AtCommit(p) /\ r.g = "hour" /\ ~r.created /\ r.wrote
             /\ Watermark("hour", <<r.site, r.cur>>) # NoId
             /\ r.row.last_processed_pageview_id # Watermark("hour", <<r.site, r.cur>>)

\* Process p's bucket fails on this step, after its row was loaded or
\* created: the except clause is entered from inside the transaction.
FailsInside(p) ==
    /\ proc[p].pc \in {"select", "update", "commit"}
    /\ proc'[p].pc = "bucket"
    /\ proc'[p].errors = proc[p].errors + 1

\* C35: when a bucket fails after its row was loaded or created in the run,
\* the transaction is rolled back, so that the committed row is as before the
\* run and a row created in the failed attempt does not exist, and the bucket
\* adds nothing to the created, updated and processed counts of the run.
C35_FailedBucketAddsNothing ==
    [][\A p \in Procs :
          FailsInside(p) =>
              /\ stats' = stats
              /\ proc[p].created => ~HasRow(stats', proc[p].g, proc[p].site, proc[p].cur)
              /\ CountsOf(proc'[p]) = proc[p].base]_vars

\* pageview_count of the row committed for key k of granularity g in the
\* table st, 0 when there is no row.
CountIn(st, g, k) == IF k \in DOMAIN st[g] THEN st[g][k].pageview_count ELSE 0

\* Process p's bucket ends on this step, committed or failed.
EndsBucket(p) ==
    /\ proc[p].pc \in {"select", "update", "commit"}
    /\ proc'[p].pc = "bucket"

\* What the bucket that process p ends on this step has added to the run's
\* created, updated and processed counts.
AddedBy(p) == [i \in 1..3 |-> CountsOf(proc'[p])[i] - proc[p].base[i]]

\* C36: in a run every bucket adds to at most one of bucketsCreated and
\* bucketsUpdated, so that created + updated is at most the number of buckets
\* the run went through, and what a bucket adds to eventsProcessed is the
\* increase of the pageview_count committed for it by the run; so that, from
\* an empty table on, the eventsProcessed attributed to a bucket add up to
\* its pageview_count.
C36_CountsAreCommitted ==
    /\ [](\A p \in Procs :
            proc[p].pc = "bucket" =>
                proc[p].created_count + proc[p].updated_count <= Len(proc[p].visited))
    /\ [][/\ \A p \in Procs :
               EndsBucket(p) =>
                   /\ AddedBy(p)[1] + AddedBy(p)[2] <= 1
                   /\ AddedBy(p)[3] =
                          CountIn(stats', proc[p].g, <<proc[p].site, proc[p].cur>>)
                              - CountIn(stats, proc[p].g, <<proc[p].site, proc[p].cur>>)
          /\ \A g \in Gran : \A k \in DOMAIN stats'[g] :
               CountIn(stats', g, k) # CountIn(stats, g, k) =>
                   \E p \in Procs :
                       EndsBucket(p) /\ proc[p].g = g /\ k = <<proc[p].site, proc[p].cur>>
         ]_vars

\* The hour buckets of day d.
HoursOfDay(d) == {BucketStart("day", d) + Span("hour", i) : i \in 0..(HoursPerDay - 1)}

\* The sum of pageview_count over the rows of site s for the hours hs.
RECURSIVE HourlySum(_, _)
HourlySum(s, hs) ==
    IF hs = {} THEN 0
    ELSE LET h == CHOOSE x \in hs : TRUE
         IN CountIn(stats, "hour", <<s, h>>) + HourlySum(s, hs \ {h})

\* C37: once a day and all its hours have been aggregated, one run after the
\* other, the daily row's pageview_count is the sum of pageview_count over
\* the day's hourly rows, and it is so again after every later pair of an
\* hourly and a daily run that follows further pageview insertions.
C37_DailyIsSumOfHourly ==
    Settled =>
        \A k \in DOMAIN stats["day"] :
            stats["day"][k].pageview_count = HourlySum(k[1], HoursOfDay(k[2]))

====
